---- MODULE Spec2Model ----
(***************************************************************************)
(* libfive: Mesh::render for DUAL_CONTOURING.                              *)
(*                                                                         *)
(* The model follows one call of Mesh::render (mesh.cpp) through           *)
(* WorkerPool::build / WorkerPool::run (worker_pool.inl) and               *)
(* Dual::walk_ / Dual::run (dual.hpp).  Each worker thread is a process    *)
(* with a program counter; one action is one access to shared memory       *)
(* (a flag load, a stack pop or push, a fetch_sub on a pending counter,    *)
(* the root lock) together with the thread-local work that follows it.     *)
(*                                                                         *)
(* Other parts are followed on their own, at a finer grain: the mesher     *)
(* threads in DCMesher::load (dc_mesher.cpp) with PerThreadBRep::pushVertex *)
(* and BRep::collect (LoadSpec, MeshSpec), the collapse of a cell with     *)
(* DCTree<3>::leafsAreManifold (CollapseSpec, LeafsSpec), the table of     *)
(* DCTree<3>::cornersAreManifold (TableSpec), the threads of Dual<3>::run *)
(* walking an octree with Dual<3>::work (WalkSpec), two runs with one      *)
(* worker on the same input, of Mesh::render and of the meshing walk of an *)
(* octree with DCMesher::load and BRep::collect (TwoRunsSpec), the         *)
(* accumulator of a QEF, Intersection<3> (QefSpec), and the breps used     *)
(* through their public members, with drawDebugLine and BRep::pushVertex   *)
(* (BRepSpec).                                                             *)
(***************************************************************************)
EXTENDS Integers, Sequences, FiniteSets, TLC

(* ---------------------------------------------------------------- bounds *)
\* Largest settings.workers tried (0 is the invalid setting).
MaxWorkers == 2
\* Largest level region.withResolution(min_feature) gives the root.
MaxLevel == 2
\* Template parameter N of WorkerPool<T, Neighbors, N> and Dual<N>: a cell
\* has 2^N children.
N == 1
\* Largest root level in the runs checked for what happens after cancel.
LiveLevel == 1

(* ------------------------------------------------------------- the tree *)
NumChildren == 2^N
ChildIdx == 0..(NumChildren - 1)

\* A cell is named by its path of parent_index values from the root.
Cells == UNION { [1..d -> ChildIdx] : d \in 0..MaxLevel }
root == << >>
\* nullptr
NULL == << -1 >>

parent(c) == IF c = root THEN NULL ELSE SubSeq(c, 1, Len(c) - 1)
parent_index(c) == c[Len(c)]
child(c, i) == Append(c, i)

\* Interval::State; FREE marks a cell that is not allocated.
EMPTY == "EMPTY"
FILLED == "FILLED"
AMBIGUOUS == "AMBIGUOUS"
UNKNOWN == "UNKNOWN"
FREE == "FREE"

\* The number a fresh cell's pending counter starts at.
PendingInit == NumChildren

FreeCell == [type |-> FREE, pending |-> 0, children |-> {}, leaf |-> FALSE]
\* T(parent, parent_index, region): a fresh cell.
NewCell == [type |-> UNKNOWN, pending |-> PendingInit, children |-> {},
            leaf |-> FALSE]

VARIABLES
    workers,      \* settings.workers
    level,        \* region.level after withResolution
    ndebug,       \* TRUE once a failed assert() was seen to be compiled away
    cancel,       \* settings.cancel
    mpc,          \* where the thread that called Mesh::render is
    result,       \* what Mesh::render returned: "none", "null" or "mesh"
    rootOut,      \* the Root returned by build: root or NULL
    tree,         \* the cells
    tasks,        \* the LockFreeStack of the running phase (top is the end)
    local,        \* per worker: its overflow stack
    done,         \* the atomic done flag of the running phase
    pc,           \* per worker: where it is in run()
    cur,          \* per worker: the cell t it holds
    idx,          \* per worker: loop index i while pushing children
    root_lock,    \* holder of root_lock, 0 when free
    claimed,      \* per worker: times root.claim took its object pool
    progress,     \* ProgressHandler: start/finish calls, total, counter
    hist,         \* history of the run, read only by the properties
    fn,           \* one call of a function of the tree: its arguments, its result
    leafs,        \* the leaf cells the walk meets: type, level, corner mask
    leafIndex,    \* leaf->index[vi] of every leaf cell (0: not yet indexed)
    counter,      \* the atomic vertex counter shared by the PerThreadBReps
    breps,        \* the PerThreadBReps: verts, indices, branes
    ld,           \* each mesher thread's position in DCMesher::load
    mesh          \* the BRep that collect fills, and collect's tasks

\* The state of one call of Mesh::render.
renderVars == << workers, level, ndebug, cancel, mpc, result, rootOut, tree,
                tasks, local, done, pc, cur, idx, root_lock, claimed,
                progress, hist >>

\* The state of the parts that are followed on their own.
meshVars == << leafs, leafIndex, counter, breps, ld, mesh >>
auxVarsButMesh == << fn, leafs, leafIndex, counter, breps, ld >>
auxVars == << fn, meshVars >>

vars == << renderVars, auxVars >>

settingsVars == << workers, level >>
\* A second thread launched beside the only worker asked for.
WorkersAndOne == 1 .. (IF workers = 1 THEN 2 ELSE workers)
Workers == 1..workers
AllWorkers == 1..MaxWorkers

isBranch(c) == tree[c].children # {}
levelOf(c) == level - Len(c)

\* uint64_t ticks = 0; for (i < level) ticks = (ticks + 1) * (1 << N);
RECURSIVE TickLoop(_)
TickLoop(l) == IF l <= 0 THEN 0 ELSE (TickLoop(l - 1) + 1) * NumChildren

\* A total that counts the cells of the deepest level alone.
PhaseTotalLeaves(l) == NumChildren ^ l

\* nextPhase(ticks + 1): the total that build announces for a region of
\* level l.
PhaseTotal(l) == TickLoop(l) + 1

\* No function is being followed on its own.
NoCall == [op |-> "none", arg |-> << >>, ret |-> << >>]
FnIdle == fn = NoCall

\* A run of Mesh::render that is followed to be compared with a second run
\* on the same input.  What the evaluator made of each cell and what the
\* QEF and manifold tests of collectChildren made of each parent are the
\* input: fn.arg holds them from the first time they are read.  fn.ret.log
\* is the sequence of tasks of the run under way, fn.ret.first what the
\* first run left once it is over.
NewRuns ==
    [op |-> "run",
     arg |-> [eval |-> [c \in Cells |-> << >>],
              collect |-> [c \in Cells |-> << >>]],
     ret |-> [log |-> << >>, first |-> << >>]]

Following == fn.op = "run"

\* The input says x about cell c, or nothing yet.
Given(kind, c, x) == Following => fn.arg[kind][c] \in { << >>, x }

\* The task on cell c joins the log of the run.
Logged(f, kind, c) ==
    IF f.op = "run" THEN [f EXCEPT !.ret.log = Append(@, << kind, c >>)]
    ELSE f

\* The task on cell c read x from the input.
Noted(kind, c, x) ==
    Logged(IF Following THEN [fn EXCEPT !.arg[kind][c] = x] ELSE fn, kind, c)

\* No walk is being followed at the level of the mesher.
MeshIdle ==
    /\ leafs = << >>
    /\ leafIndex = << >>
    /\ counter = 1
    /\ breps = << >>
    /\ ld = << >>
    /\ mesh = [pc |-> "none"]

AuxIdle == FnIdle /\ MeshIdle

EmptyHist == [ collects  |-> [c \in Cells |-> 0],
               decs      |-> [c \in Cells |-> [i \in ChildIdx |-> 0]],
               early     |-> FALSE,
               works     |-> [c \in Cells |-> 0],
               earlyWork |-> FALSE,
               visits    |-> [c \in Cells |-> 0],
               taken     |-> [w \in AllWorkers |-> 0],
               unevaluated |-> FALSE,
               built     |-> FALSE,
               walked    |-> FALSE,
               setBy     |-> [c \in Cells |-> {}] ]

RenderInit ==
    /\ workers \in 0..MaxWorkers
    /\ level \in 0..MaxLevel
    /\ ndebug = FALSE
    /\ cancel = FALSE
    /\ mpc = "render"
    /\ result = "none"
    /\ rootOut = NULL
    /\ tree = [c \in Cells |-> FreeCell]
    /\ tasks = << >>
    /\ local = [w \in AllWorkers |-> << >>]
    /\ done = FALSE
    /\ pc = [w \in AllWorkers |-> "idle"]
    /\ cur = [w \in AllWorkers |-> NULL]
    /\ idx = [w \in AllWorkers |-> 0]
    /\ root_lock = 0
    /\ claimed = [w \in AllWorkers |-> 0]
    /\ progress = [started |-> 0, finished |-> 0, total |-> 0, counter |-> 0]
    /\ hist = EmptyHist

\* The state after construction: nothing else is in progress.
Init == RenderInit /\ AuxIdle

\* No render is in progress (the parts followed on their own start here).
RenderIdle == RenderInit /\ workers = 1 /\ level = 0


Top(s) == s[Len(s)]
Pop(s) == SubSeq(s, 1, Len(s) - 1)
Bump(n) == IF n < 2 THEN n + 1 ELSE n

(* ---------------------------------------------------- the caller's flags *)
\* while (!settings.cancel.load())
LoopTestCancelOnly(d, c) == ~c

\* while (!done.load())
LoopTestDoneOnly(d, c) == ~d

\* while (!done.load() && !settings.cancel.load())
LoopTest(d, c) == ~d /\ ~c

\* The caller sets settings.cancel at any moment before render returns.
Cancel ==
    /\ ~cancel
    /\ mpc \notin {"returned", "aborted"}
    /\ cancel' = TRUE
    /\ UNCHANGED << auxVars, settingsVars, ndebug, mpc, result, rootOut, tree, tasks, local,
                    done, pc, cur, idx, root_lock, claimed, progress, 
                    hist >>

(* ------------------------------------------------------- Mesh::render *)
\* settings.progress_handler->start({1, 1, 1})
RenderStart ==
    /\ mpc = "render"
    /\ mpc' = "build"
    /\ progress' = [progress EXCEPT !.started = @ + 1]
    /\ UNCHANGED << auxVars, settingsVars, ndebug, cancel, result, rootOut, tree, tasks, local,
                    done, pc, cur, idx, root_lock, claimed,  hist >>

\* assert(e): a build with assertions aborts when e is false; a build with
\* NDEBUG goes on.  Which build runs shows at the first assertion that fails.
AssertAborts(e) == ~e /\ ~ndebug
AssertPasses(e) == TRUE

(* ------------------------------------------------- WorkerPool::build *)
\* LockFreeStack tasks(settings.workers): a stack of fixed size, which holds
\* at most that many tasks; a push on a full stack fails.
Capacity == workers

\* Up to the launch of the worker threads.
BuildEnter ==
    /\ mpc = "build"
    /\ mpc' = "build_join"
    /\ tree' = [tree EXCEPT ![root] = NewCell]
    /\ tasks' = IF Capacity > 0 THEN << root >> ELSE << >>
    /\ progress' = [progress EXCEPT !.total = PhaseTotal(level),
                                    !.counter = 0]
    /\ done' = FALSE
    /\ pc' = [w \in AllWorkers |-> IF w \in Workers THEN "test" ELSE "idle"]
    /\ UNCHANGED << auxVars, settingsVars, ndebug, cancel, result, rootOut, local, cur, idx,
                    root_lock, claimed,  hist >>

(* --------------------------------------------------- WorkerPool::run *)
BTest(w) ==
    /\ pc[w] = "test"
    /\ pc' = [pc EXCEPT ![w] = IF LoopTest(done, cancel) THEN "take"
                                                        ELSE "setdone"]
    /\ UNCHANGED << auxVars, settingsVars, ndebug, cancel, mpc, result, rootOut, tree, tasks,
                    local, done, cur, idx, root_lock, claimed, progress,  hist >>

\* Line 199: a cell above the minimum size is pruned or subdivided, a cell
\* of the minimum size is evaluated as a leaf.
can_subdivide_always(t) == levelOf(t) >= 0

can_subdivide(t) == levelOf(t) > 0

\* Lines 203-208: what the cell's type is after the volume tree was asked;
\* UNKNOWN when there is no volume tree or it does not decide.
VolOutcomes == {UNKNOWN, EMPTY, FILLED}

\* Line 209 without its test.
needs_interval_always(type) == TRUE

\* Line 209: evalInterval runs only on a cell whose type is still UNKNOWN.
needs_interval(type) == type = UNKNOWN

\* What evalInterval can make of a cell above level 0.
IntervalOutcomes == {EMPTY, FILLED, AMBIGUOUS}
\* What evalLeaf can make of a cell at level 0.
LeafOutcomes == {EMPTY, FILLED, AMBIGUOUS}

\* XTree::done(): the finished cell is stored in its parent's child slot.
Store(tr, c) ==
    IF c = root THEN tr
    ELSE [tr EXCEPT ![parent(c)].children = @ \cup {parent_index(c)}]

\* The fall through to the tick and to up() that line 244 prevents.
AfterSubdivideFallsThrough == "up"

\* Line 244, continue: where run() goes once the children of an AMBIGUOUS
\* cell are all pushed.
AfterSubdivide == "test"

\* Lines 133-152: no task was found, keep looping.
BTakeNone(w) ==
    /\ pc[w] = "take"
    /\ local[w] = << >>
    /\ tasks = << >>
    /\ pc' = [pc EXCEPT ![w] = "test"]
    /\ UNCHANGED << auxVars, settingsVars, ndebug, cancel, mpc, result, rootOut, tree, tasks,
                    local, done, cur, idx, root_lock, claimed, progress,  hist >>

\* Lines 133-269: take a task and evaluate its cell.
BTake(w) ==
    /\ pc[w] = "take"
    /\ local[w] # << >> \/ tasks # << >>
    /\ LET fromLocal == local[w] # << >>
           t == IF fromLocal THEN Top(local[w]) ELSE Top(tasks)
       IN
       /\ local' = IF fromLocal THEN [local EXCEPT ![w] = Pop(@)] ELSE local
       /\ tasks' = IF fromLocal THEN tasks ELSE Pop(tasks)
       /\ cur' = [cur EXCEPT ![w] = t]
       /\ idx' = [idx EXCEPT ![w] = 0]
       /\ \E v \in IF can_subdivide(t) THEN VolOutcomes ELSE {UNKNOWN},
             e \in IF can_subdivide(t) THEN IntervalOutcomes ELSE LeafOutcomes :
            LET interval == can_subdivide(t) /\ needs_interval(v)
                i == IF can_subdivide(t) /\ ~interval THEN v ELSE e
                by == IF can_subdivide(t)
                      THEN (IF v # UNKNOWN THEN {"vol"} ELSE {}) \cup
                           (IF interval THEN {"interval"} ELSE {})
                      ELSE {"leaf"}
            IN
            /\ Given("eval", t, << v, i >>)
            /\ fn' = Noted("eval", t, << v, i >>)
            /\ hist' = [hist EXCEPT !.taken[w] = IF cancel THEN Bump(@) ELSE @,
                                    !.visits[t] = Bump(@),
                                    !.setBy[t] = @ \cup by]
            /\ IF can_subdivide(t) /\ i = AMBIGUOUS
               THEN /\ tree' = [tree EXCEPT ![t].type = i]
                    /\ pc' = [pc EXCEPT ![w] = "push"]
                    /\ UNCHANGED progress
               ELSE /\ tree' = Store([tree EXCEPT ![t].type = i,
                                                  ![t].leaf = (i = AMBIGUOUS)], t)
                    /\ pc' = [pc EXCEPT ![w] = "up"]
                    /\ progress' = [progress EXCEPT !.counter = @ +
                           (IF can_subdivide(t) THEN TickLoop(levelOf(t)) + 1
                                               ELSE 1)]
    /\ UNCHANGED << meshVars, settingsVars, ndebug, cancel, mpc, result, rootOut, done,
                    root_lock, claimed >>

\* The loop over t->children with a push that gives up when the shared
\* stack is full, instead of falling back on the local stack.
BPushDrops(w) ==
    /\ pc[w] = "push"
    /\ LET t == cur[w]
           next_tree == child(t, idx[w])
           last == idx[w] + 1 = NumChildren
       IN
       /\ tree' = [tree EXCEPT ![next_tree] = NewCell]
       /\ tasks' = IF Len(tasks) < Capacity THEN Append(tasks, next_tree)
                   ELSE tasks
       /\ idx' = [idx EXCEPT ![w] = IF last THEN 0 ELSE @ + 1]
       /\ pc' = [pc EXCEPT ![w] = IF last THEN AfterSubdivide ELSE "push"]
       /\ cur' = [cur EXCEPT ![w] = IF last /\ AfterSubdivide = "test"
                                    THEN NULL ELSE @]
    /\ UNCHANGED << auxVars, settingsVars, ndebug, cancel, mpc, result, rootOut, done,
                    local, root_lock, claimed, progress,  hist >>

\* Lines 223-244: one turn of the loop over t->children.
BPush(w) ==
    /\ pc[w] = "push"
    /\ LET t == cur[w]
           next_tree == child(t, idx[w])
           last == idx[w] + 1 = NumChildren
       IN
       /\ tree' = [tree EXCEPT ![next_tree] = NewCell]
       /\ IF Len(tasks) < Capacity
          THEN tasks' = Append(tasks, next_tree) /\ local' = local
          ELSE local' = [local EXCEPT ![w] = Append(@, next_tree)]
               /\ tasks' = tasks
       /\ idx' = [idx EXCEPT ![w] = IF last THEN 0 ELSE @ + 1]
       /\ pc' = [pc EXCEPT ![w] = IF last THEN AfterSubdivide ELSE "push"]
       /\ cur' = [cur EXCEPT ![w] = IF last /\ AfterSubdivide = "test"
                                    THEN NULL ELSE @]
    /\ UNCHANGED << auxVars, settingsVars, ndebug, cancel, mpc, result, rootOut, done,
                    root_lock, claimed, progress,  hist >>

\* The bottom-up work of c is over.
Finished(tr, c) ==
    /\ tr[c].type \in {EMPTY, FILLED, AMBIGUOUS}
    /\ levelOf(c) > 0 /\ tr[c].type = AMBIGUOUS /\ ~tr[c].leaf
          => hist.collects[c] > 0

\* collectChildren: the caller owns the bottom-up step of the cell when its
\* fetch_sub drove pending to 0.
DrivesToZero(new) == new = 0

\* collectChildren, as run by the owner: the children are merged when they
\* are uniformly EMPTY or FILLED, or all AMBIGUOUS leaves whose fused QEF and
\* manifoldness tests pass (ok); else the cell stays a branch.
Collect(tr, p, ok) ==
    LET cs == { child(p, i) : i \in ChildIdx }
        all(T) == \A c \in cs : tr[c].type = T /\ tr[c].children = {}
        merged(T, lf) ==
            [c \in Cells |->
                IF c = p THEN [tr[p] EXCEPT !.type = T, !.children = {},
                                            !.leaf = lf]
                ELSE IF c \in cs THEN FreeCell ELSE tr[c]]
    IN Store(IF all(EMPTY) THEN merged(EMPTY, FALSE)
             ELSE IF all(FILLED) THEN merged(FILLED, FALSE)
             ELSE IF all(AMBIGUOUS) /\ ok THEN merged(AMBIGUOUS, TRUE)
             ELSE tr, p)

\* The loop of line 281 without the call's result.
WhileNotNull(t, collected) == t # NULL

\* Line 281: while (t != nullptr && t->collectChildren(...)).
WhileCollects(t, collected) == t # NULL /\ collected

\* Lines 274-298: up(), then one call of collectChildren on the parent.
BUp(w) ==
    /\ pc[w] = "up"
    /\ LET t == cur[w]
           p == parent(t)
       IN
       IF p = NULL
       THEN /\ pc' = [pc EXCEPT ![w] = "setdone"]
            /\ cur' = [cur EXCEPT ![w] = NULL]
            /\ UNCHANGED << fn, tree, progress, hist >>
       ELSE LET new == tree[p].pending - 1
                dec == [tree EXCEPT ![p].pending = new]
                collected == DrivesToZero(new)
                h == [hist EXCEPT !.decs[p][parent_index(t)] = Bump(@)]
            IN
            /\ IF collected
               THEN /\ \E ok \in BOOLEAN :
                          /\ Given("collect", p, << ok >>)
                          /\ fn' = Noted("collect", p, << ok >>)
                          /\ tree' = Collect(dec, p, ok)
                    /\ hist' = [h EXCEPT
                          !.collects[p] = Bump(@),
                          !.early = @ \/ \E i \in ChildIdx :
                                            ~Finished(tree, child(p, i))]
               ELSE /\ tree' = dec
                    /\ hist' = h
                    /\ fn' = fn
            /\ IF WhileCollects(p, collected)
               THEN /\ progress' = [progress EXCEPT !.counter = @ + 1]
                    /\ cur' = [cur EXCEPT ![w] = p]
                    /\ pc' = pc
               ELSE /\ cur' = [cur EXCEPT ![w] = NULL]
                    /\ pc' = [pc EXCEPT ![w] = "test"]
                    /\ UNCHANGED progress
    /\ UNCHANGED << meshVars, settingsVars, ndebug, cancel, mpc, result, rootOut, tasks, local,
                    done, idx, root_lock, claimed >>

\* done.store(true)
BSetDone(w) ==
    /\ pc[w] = "setdone"
    /\ done' = TRUE
    /\ pc' = [pc EXCEPT ![w] = "lock"]
    /\ UNCHANGED << auxVars, settingsVars, ndebug, cancel, mpc, result, rootOut, tree, tasks,
                    local, cur, idx, root_lock, claimed, progress, 
                    hist >>

\* The lock was taken without waiting for its holder.
BLockNoWait(w) ==
    /\ pc[w] = "lock"
    /\ root_lock' = w
    /\ pc' = [pc EXCEPT ![w] = "claim"]
    /\ UNCHANGED << auxVars, settingsVars, ndebug, cancel, mpc, result, rootOut, tree, tasks,
                    local, done, cur, idx, claimed, progress,  hist >>

\* std::lock_guard<std::mutex> lock(root_lock)
BLock(w) ==
    /\ pc[w] = "lock"
    /\ root_lock = 0
    /\ root_lock' = w
    /\ pc' = [pc EXCEPT ![w] = "claim"]
    /\ UNCHANGED << auxVars, settingsVars, ndebug, cancel, mpc, result, rootOut, tree, tasks,
                    local, done, cur, idx, claimed, progress,  hist >>

\* root.claim(object_pool), then the guard releases the lock.
BClaim(w) ==
    /\ pc[w] = "claim"
    /\ claimed' = [claimed EXCEPT ![w] = @ + 1]
    /\ root_lock' = 0
    /\ pc' = [pc EXCEPT ![w] = "exited"]
    /\ UNCHANGED << auxVars, settingsVars, ndebug, cancel, mpc, result, rootOut, tree, tasks,
                    local, done, cur, idx, progress,  hist >>

\* Lines 96-111: the join, the assertion and the returned Root.
BuildReturn ==
    /\ mpc = "build_join"
    /\ \A w \in Workers : pc[w] = "exited"
    /\ \/ /\ AssertAborts(done \/ cancel)
          /\ mpc' = "aborted"
          /\ UNCHANGED << rootOut, ndebug, hist >>
       \/ /\ AssertPasses(done \/ cancel)
          /\ ndebug' = (ndebug \/ ~(done \/ cancel))
          /\ mpc' = "check"
          /\ rootOut' = IF cancel THEN NULL ELSE root
          /\ hist' = [hist EXCEPT !.built =
                 done /\ \A c \in Cells : tree[c].type # FREE => Finished(tree, c)]
    /\ UNCHANGED << auxVars, settingsVars, cancel, result, tree, tasks, local, done,
                    pc, cur, idx, root_lock, claimed, progress >>

(* ------------------------------------------------------- Mesh::render *)
\* if (settings.cancel.load() || t.get() != nullptr)
BuildFailedInverted(c, r) == c \/ r # NULL

\* mesh.cpp:73: the test made on what build returned.
BuildFailed(c, r) == c \/ r = NULL

\* Lines 73-78 without the call of finish() before return nullptr.
RenderCheckNoFinish ==
    /\ mpc = "check"
    /\ IF BuildFailed(cancel, rootOut)
       THEN /\ result' = "null"
            /\ mpc' = "returned"
       ELSE /\ mpc' = "walk"
            /\ UNCHANGED result
    /\ UNCHANGED << auxVars, settingsVars, ndebug, cancel, rootOut, tree, tasks, local,
                    done, pc, cur, idx, root_lock, claimed, hist, progress >>

\* Lines 73-78: finish the progress handler and return nullptr, or go on.
RenderCheck ==
    /\ mpc = "check"
    /\ IF BuildFailed(cancel, rootOut)
       THEN /\ progress' = [progress EXCEPT !.finished = @ + 1]
            /\ result' = "null"
            /\ mpc' = "returned"
       ELSE /\ mpc' = "walk"
            /\ UNCHANGED << progress, result >>
    /\ UNCHANGED << auxVars, settingsVars, ndebug, cancel, rootOut, tree, tasks, local,
                    done, pc, cur, idx, root_lock, claimed, hist >>

(* ------------------------------------------------------- Dual::walk_ *)
\* resetPending: the number the pending counter of a cell is set back to.
\* Dual::run lets through the decrement that finds the counter at 0, which
\* is the last of the 2^N children when the counter starts one below 2^N.
ResetValue == NumChildren - 1

resetPending(tr) ==
    [c \in Cells |-> IF tr[c].type = FREE THEN tr[c]
                     ELSE [tr[c] EXCEPT !.pending = ResetValue]]

\* Root::size(): the cells of the tree.
TreeSize(tr) == Cardinality({ c \in Cells : tr[c].type # FREE })

\* T::isSingleton(t): the cells of a tree are allocated one by one, each with
\* its parent pointer; none of them is a shared singleton.
isSingleton(c) == FALSE

\* Lines 272-316: up to the launch of the worker threads.
WalkEnter ==
    /\ mpc = "walk"
    /\ mpc' = "walk_join"
    /\ tasks' = IF Capacity > 0 THEN << rootOut >> ELSE << >>
    /\ tree' = resetPending(tree)
    /\ local' = [w \in AllWorkers |-> << >>]
    /\ progress' = [progress EXCEPT !.total = TreeSize(tree) + 1,
                                    !.counter = 0]
    /\ done' = FALSE
    /\ pc' = [w \in AllWorkers |-> IF w \in Workers THEN "wtest" ELSE "idle"]
    /\ hist' = [hist EXCEPT !.taken = [w \in AllWorkers |-> 0],
                            !.visits = [c \in Cells |-> 0],
                            !.decs = EmptyHist.decs,
                            !.unevaluated = tree[rootOut].type = UNKNOWN]
    /\ fn' = Logged(fn, "tree", tree)
    /\ UNCHANGED << meshVars, settingsVars, ndebug, cancel, result, rootOut, cur, idx,
                    root_lock, claimed >>

(* -------------------------------------------------------- Dual::run *)
WTest(w) ==
    /\ pc[w] = "wtest"
    /\ pc' = [pc EXCEPT ![w] = IF LoopTest(done, cancel) THEN "wtake"
                                                        ELSE "wsetdone"]
    /\ UNCHANGED << auxVars, settingsVars, ndebug, cancel, mpc, result, rootOut, tree,
                    tasks, local, done, cur, idx, root_lock, claimed,
                    progress, hist >>

\* Lines 355-374: no task was found, keep looping.
WTakeNone(w) ==
    /\ pc[w] = "wtake"
    /\ local[w] = << >>
    /\ tasks = << >>
    /\ pc' = [pc EXCEPT ![w] = "wtest"]
    /\ UNCHANGED << auxVars, settingsVars, ndebug, cancel, mpc, result, rootOut, tree,
                    tasks, local, done, cur, idx, root_lock, claimed,
                    progress, hist >>

\* Lines 355-397: take a cell; a branch has its children pushed, a leaf
\* is ticked and walked up from.
WTake(w) ==
    /\ pc[w] = "wtake"
    /\ local[w] # << >> \/ tasks # << >>
    /\ LET fromLocal == local[w] # << >>
           t == IF fromLocal THEN Top(local[w]) ELSE Top(tasks)
       IN
       /\ local' = IF fromLocal THEN [local EXCEPT ![w] = Pop(@)] ELSE local
       /\ tasks' = IF fromLocal THEN tasks ELSE Pop(tasks)
       /\ idx' = [idx EXCEPT ![w] = 0]
       /\ hist' = [hist EXCEPT !.taken[w] = IF cancel THEN Bump(@) ELSE @,
                               !.visits[t] = Bump(@)]
       /\ IF isBranch(t)
          THEN /\ pc' = [pc EXCEPT ![w] = "wpush"]
               /\ cur' = [cur EXCEPT ![w] = t]
               /\ UNCHANGED progress
          ELSE IF isSingleton(t)
          THEN /\ pc' = [pc EXCEPT ![w] = "wtest"]
               /\ cur' = [cur EXCEPT ![w] = NULL]
               /\ UNCHANGED progress
          ELSE /\ pc' = [pc EXCEPT ![w] = "wup"]
               /\ cur' = [cur EXCEPT ![w] = t]
               /\ progress' = [progress EXCEPT !.counter = @ + 1]
       /\ fn' = Logged(fn, "walk", t)
    /\ UNCHANGED << meshVars, settingsVars, ndebug, cancel, mpc, result, rootOut, tree,
                    done, root_lock, claimed >>

\* Lines 379-386: one turn of the loop over t->children.
WPush(w) ==
    /\ pc[w] = "wpush"
    /\ LET c == child(cur[w], idx[w])
           last == idx[w] + 1 = NumChildren
       IN
       /\ IF Len(tasks) < Capacity
          THEN tasks' = Append(tasks, c) /\ local' = local
          ELSE local' = [local EXCEPT ![w] = Append(@, c)] /\ tasks' = tasks
       /\ idx' = [idx EXCEPT ![w] = IF last THEN 0 ELSE @ + 1]
       /\ pc' = [pc EXCEPT ![w] = IF last THEN "wtest" ELSE "wpush"]
       /\ cur' = [cur EXCEPT ![w] = IF last THEN NULL ELSE @]
    /\ UNCHANGED << auxVars, settingsVars, ndebug, cancel, mpc, result, rootOut, tree,
                    done, root_lock, claimed, progress, hist >>

\* t->pending-- >= 0
WalkAny(old) == old >= 0

\* --t->pending == 0
WalkPreDecrement(old) == old - 1 = 0

\* t->pending-- == 0: the test is made on the value before the decrement.
WalkLast(old) == old = 0

\* The walk below c is over: c was taken as a leaf, or work(c) has run.
Walked(c) == IF isBranch(c) THEN hist.works[c] > 0 ELSE hist.visits[c] > 0

\* Line 399: t = t->parent, then one test of t && t->pending-- == 0.
WUp(w) ==
    /\ pc[w] = "wup"
    /\ LET p == parent(cur[w])
       IN
       IF p = NULL
       THEN /\ pc' = [pc EXCEPT ![w] = "wsetdone"]
            /\ cur' = [cur EXCEPT ![w] = NULL]
            /\ UNCHANGED << tree, hist >>
       ELSE /\ tree' = [tree EXCEPT ![p].pending = @ - 1]
            /\ IF WalkLast(tree[p].pending)
               THEN /\ pc' = [pc EXCEPT ![w] = "wwork"]
                    /\ cur' = [cur EXCEPT ![w] = p]
                    /\ hist' = [hist EXCEPT
                          !.decs[p][parent_index(cur[w])] = Bump(@),
                          !.works[p] = Bump(@),
                          !.earlyWork = @ \/ \E i \in ChildIdx :
                               child(p, i) # cur[w] /\ ~Walked(child(p, i))]
               ELSE /\ pc' = [pc EXCEPT ![w] = "wtest"]
                    /\ cur' = [cur EXCEPT ![w] = NULL]
                    /\ hist' = [hist EXCEPT
                          !.decs[p][parent_index(cur[w])] = Bump(@)]
    /\ UNCHANGED << auxVars, settingsVars, ndebug, cancel, mpc, result, rootOut, tasks,
                    local, done, idx, root_lock, claimed, progress >>

\* Lines 401-408: Dual<N>::work(t, v) runs, then the tick.
WWork(w) ==
    /\ pc[w] = "wwork"
    /\ pc' = [pc EXCEPT ![w] = "wup"]
    /\ progress' = [progress EXCEPT !.counter = @ + 1]
    /\ fn' = Logged(fn, "work", cur[w])
    /\ UNCHANGED << meshVars, settingsVars, ndebug, cancel, mpc, result, rootOut, tree,
                    tasks, local, done, cur, idx, root_lock, claimed, hist >>

\* done.store(true)
WSetDone(w) ==
    /\ pc[w] = "wsetdone"
    /\ done' = TRUE
    /\ pc' = [pc EXCEPT ![w] = "exited"]
    /\ UNCHANGED << auxVars, settingsVars, ndebug, cancel, mpc, result, rootOut, tree,
                    tasks, local, cur, idx, root_lock, claimed, progress,
                    hist >>

\* Lines 318-333: the join, the assertion, and out->collect(breps).
WalkReturn ==
    /\ mpc = "walk_join"
    /\ \A w \in Workers : pc[w] = "exited"
    /\ \/ /\ AssertAborts(done \/ cancel)
          /\ mpc' = "aborted"
          /\ UNCHANGED << ndebug, hist >>
       \/ /\ AssertPasses(done \/ cancel)
          /\ ndebug' = (ndebug \/ ~(done \/ cancel))
          /\ mpc' = "reset"
          /\ hist' = [hist EXCEPT !.walked =
                 done /\ \A c \in Cells : tree[c].type # FREE => Walked(c)]
    /\ UNCHANGED << auxVars, settingsVars, cancel, result, rootOut, tree, tasks, local,
                    done, pc, cur, idx, root_lock, claimed, progress >>

(* ------------------------------------------------------- Mesh::render *)
\* Lines 92 and 141-144: t.reset(settings), finish(), return out.
RenderFinish ==
    /\ mpc = "reset"
    /\ tree' = [c \in Cells |-> FreeCell]
    /\ progress' = [progress EXCEPT !.finished = @ + 1]
    /\ result' = "mesh"
    /\ mpc' = "returned"
    /\ UNCHANGED << auxVars, settingsVars, ndebug, cancel, rootOut, tasks, local, done,
                    pc, cur, idx, root_lock, claimed, hist >>

BuildWorker(w) ==
    \/ BTest(w) \/ BTakeNone(w) \/ BTake(w) \/ BPush(w) \/ BUp(w)
    \/ BSetDone(w) \/ BLock(w) \/ BClaim(w)

WalkWorker(w) ==
    \/ WTest(w) \/ WTakeNone(w) \/ WTake(w) \/ WPush(w) \/ WUp(w)
    \/ WWork(w) \/ WSetDone(w)

\* The steps of the thread that called Mesh::render.
Main ==
    \/ RenderStart \/ BuildEnter \/ BuildReturn \/ RenderCheck
    \/ WalkEnter \/ WalkReturn \/ RenderFinish

Next ==
    \/ Main
    \/ Cancel
    \/ \E w \in AllWorkers : BuildWorker(w)
    \/ \E w \in AllWorkers : WalkWorker(w)

Spec == Init /\ [][Next]_vars

\* Every launched thread keeps being scheduled; the caller of render goes on
\* whenever its join or its next call is possible.  Nothing makes the user
\* set cancel.
Fairness ==
    /\ WF_vars(Main)
    /\ \A w \in AllWorkers : WF_vars(BuildWorker(w)) /\ WF_vars(WalkWorker(w))

\* The runs, cancelled or not, on the trees of at most LiveLevel levels.
InitLive == Init /\ level <= LiveLevel

FairSpec == InitLive /\ [][Next]_vars /\ Fairness

\* The runs in which cancel is never set.
NextNoCancel ==
    \/ Main
    \/ \E w \in AllWorkers : BuildWorker(w)
    \/ \E w \in AllWorkers : WalkWorker(w)

NoCancelSpec == Init /\ [][NextNoCancel]_vars /\ Fairness

(* ------------------------------------------------------------ properties *)
\* The decrements made so far on the pending counter of c in this phase.
RECURSIVE SumDecs(_, _)
SumDecs(c, n) == IF n = 0 THEN 0
                 ELSE hist.decs[c][n - 1] + SumDecs(c, n - 1)
Decs(c) == SumDecs(c, NumChildren)

\* The build is running or has just returned; the walk has not begun.
InBuild == mpc \in {"build_join", "check", "walk"}
\* The meshing walk is running or has just returned.
InWalk == mpc \in {"walk_join", "reset"}

\* C1: during the build every child decrements its parent's pending counter
\* at most once (exactly once when the build is complete), the counter is
\* 2^N minus the decrements made, and a cell is collected at most once, by
\* the decrement that drives the counter to 0 and by no other.
C1_OneCollector ==
    InBuild =>
      /\ \A c \in Cells :
           /\ hist.collects[c] <= 1
           /\ \A i \in ChildIdx : hist.decs[c][i] <= 1
           /\ tree[c].type # FREE => tree[c].pending = PendingInit - Decs(c)
           /\ hist.collects[c] = 1 <=> Decs(c) = NumChildren
      /\ mpc = "check" /\ done /\ ~cancel =>
           \A c \in Cells \ {root} :
              hist.visits[c] > 0 => hist.decs[parent(c)][parent_index(c)] = 1

\* Two workers race up to the same parent while another cell has already
\* been collected.
C1_Witness ==
    /\ workers = 2
    /\ pc[1] = "up" /\ pc[2] = "up"
    /\ cur[1] # cur[2]
    /\ cur[1] # root /\ parent(cur[1]) = parent(cur[2])
    /\ \E c \in Cells : hist.collects[c] = 1

\* C2: in the build a cell is collected only when the bottom-up work of each
\* of its 2^N children is over, its pending counter never goes below 0 and
\* is 0 from the collection on, and once the build is complete every cell
\* that was subdivided has been collected exactly once.
C2_CollectAfterChildren ==
    /\ ~hist.early
    /\ InBuild =>
         /\ \A c \in Cells :
              /\ tree[c].type # FREE => tree[c].pending >= 0
              /\ hist.collects[c] <= 1
              /\ hist.collects[c] = 1 =>
                   /\ tree[c].type # FREE => tree[c].pending = 0
                   /\ \A i \in ChildIdx : hist.visits[child(c, i)] = 1
         /\ mpc = "check" /\ done /\ ~cancel =>
              \A c \in Cells :
                 (Len(c) < MaxLevel /\ hist.visits[child(c, 0)] > 0)
                     => hist.collects[c] = 1

\* A cell two levels deep has been collected and the build is complete with
\* the root left a branch.
C2_Witness ==
    /\ mpc = "check" /\ done /\ ~cancel
    /\ workers = 2
    /\ hist.collects[root] = 1
    /\ isBranch(root)
    /\ \E c \in Cells \ {root} : hist.collects[c] = 1

\* C3 (as amended): in the meshing walk the pending counter of every branch
\* cell is 2^N - 1 minus the decrements made, each child decrementing at most
\* once; Dual::work runs on a branch cell at most once, by the decrement that
\* finds the counter at 0, which is the last of the 2^N, after the walk of
\* every child is over; and when the walk completes without cancel it has
\* run exactly once on every branch cell.
C3_WorkOnce ==
    /\ ~hist.earlyWork
    /\ \A c \in Cells : hist.works[c] <= 1
    /\ InWalk =>
         \A c \in Cells : isBranch(c) =>
            /\ \A i \in ChildIdx : hist.decs[c][i] <= 1
            /\ tree[c].pending = ResetValue - Decs(c)
            /\ hist.works[c] = 1 <=> Decs(c) = NumChildren
    /\ mpc = "reset" /\ ~cancel /\ workers >= 1 =>
         \A c \in Cells : isBranch(c) => hist.works[c] = 1

\* The walk of two workers is complete on a tree with two levels of branches.
C3_Witness ==
    /\ mpc = "reset" /\ ~cancel
    /\ workers = 2
    /\ isBranch(root) /\ hist.works[root] = 1
    /\ \E c \in Cells \ {root} : isBranch(c) /\ hist.works[c] = 1

\* C3 as stated: the counter of every branch cell was reinitialised to 2^N,
\* so that in the walk it is 2^N minus the decrements made.
C3_ResetToNumChildren ==
    InWalk =>
       \A c \in Cells : isBranch(c) =>
          tree[c].pending = NumChildren - Decs(c)

\* Every launched worker has left run().
AllExited == \A w \in Workers : pc[w] = "exited"

\* C4: when cancel is never set and W >= 1, whatever the evaluations make of
\* the cells, the build comes to its return: done is true, every worker has
\* left run(), every cell of the tree is finished and the Root is returned.
C4_BuildTerminates ==
    (mpc = "build" /\ workers >= 1) ~>
        (mpc = "check" /\ done /\ AllExited /\ hist.built /\ rootOut = root)

\* A build of two workers has returned a tree whose branches, on two levels,
\* were not collapsed.
C4_Witness ==
    /\ mpc = "check" /\ done /\ ~cancel
    /\ workers = 2 /\ level = 2
    /\ AllExited
    /\ isBranch(root)
    /\ \E c \in Cells \ {root} : isBranch(c)

\* C5: when cancel is never set and W >= 1, the walk of every finished tree
\* comes to its end: done is true, every meshing worker has left run() and
\* every cell of the tree was taken as a task, once.
C5_WalkTerminates ==
    (mpc = "walk_join" /\ workers >= 1) ~>
        (/\ mpc = "reset" /\ done /\ AllExited
         /\ \A c \in Cells : tree[c].type # FREE => hist.visits[c] = 1)

\* The walk of a tree whose root is a leaf has ended.
C5_Witness ==
    /\ mpc = "reset" /\ done
    /\ workers = 2
    /\ AllExited
    /\ tree[root].type # FREE /\ ~isBranch(root)
    /\ hist.visits[root] = 1

\* C6: with valid settings, a render during which cancel was set returns a
\* null mesh.
C6_NullOnCancel ==
    (mpc = "returned" /\ cancel /\ workers >= 1) => result = "null"

\* C7 (as amended): after cancel is set a worker takes at most one more
\* task, the one of the loop turn whose test it had passed before; and from
\* the moment cancel is set every launched worker comes to leave run().
C7_AtMostOneMoreTask ==
    /\ [](\A w \in AllWorkers : hist.taken[w] <= 1)
    /\ cancel ~> AllExited

\* Cancel came during the walk, a worker took one more cell after it, both
\* workers have left run() and a cell of the tree was never taken.
C7_Witness ==
    /\ mpc = "walk_join" /\ cancel
    /\ workers = 2
    /\ AllExited
    /\ \E w \in Workers : hist.taken[w] = 1
    /\ \E c \in Cells : tree[c].type # FREE /\ hist.visits[c] = 0

\* C7 as stated: no worker takes a task once cancel is set.
C7_NoNewTask == \A w \in AllWorkers : hist.taken[w] = 0

\* C8: finish is never called before start nor more than once, it has not
\* been called while render runs, and it has been called exactly once when
\* render has returned, whatever the path.
C8_FinishOnce ==
    /\ progress.started <= 1
    /\ progress.finished <= progress.started
    /\ mpc = "returned" <=> progress.finished = 1
    /\ mpc # "render" <=> progress.started = 1

\* Render has returned null after a cancel that stopped the build of two
\* workers with a cell left unevaluated, and finish was called once.
C8_Witness ==
    /\ mpc = "returned" /\ result = "null" /\ cancel
    /\ workers = 2
    /\ \E c \in Cells : tree[c].type = UNKNOWN
    /\ progress.started = 1 /\ progress.finished = 1

\* C9: a render with workers == 0 ends by returning a null mesh with the
\* progress handler finished.
C9_InvalidSettingsNull ==
    (workers = 0 /\ mpc \in {"returned", "aborted"}) =>
        (mpc = "returned" /\ result = "null" /\ progress.finished = 1)

\* C10: when cancel is never set and W >= 1, render returns a mesh, after a
\* build that finished every cell and a walk that covered every cell.
C10_MeshReturned ==
    (mpc = "render" /\ workers >= 1) ~>
        (/\ mpc = "returned" /\ result = "mesh"
         /\ hist.built /\ hist.walked /\ ~hist.unevaluated)

\* A render of two workers on a tree of two levels has returned its mesh.
C10_Witness ==
    /\ mpc = "returned" /\ result = "mesh" /\ ~cancel
    /\ workers = 2 /\ level = 2
    /\ hist.built /\ hist.walked

(* ------------------------------------- DCTree<3>::cornersAreManifold *)

NumCorners == 8
NumMasks == 2^NumCorners
Masks == 0 .. (NumMasks - 1)

\* (mask & (1 << i)) != 0
Bit(mask, i) == (mask \div (2^i)) % 2 = 1

corner_table ==
    << 1,1,1,1,1,1,0,1,1,0,1,1,1,1,1,1,1,1,0,1,0,1,0,1,0,0,0,1,0,1,0,1,
       1,0,1,1,0,0,0,1,0,0,1,1,0,0,1,1,1,1,1,1,0,1,0,1,0,0,1,1,0,0,0,1,
       1,0,0,0,1,1,0,1,0,0,0,0,1,1,1,1,1,1,0,1,1,1,0,1,0,0,0,0,1,1,0,1,
       0,0,0,0,0,0,0,0,0,0,0,0,0,0,0,0,1,1,1,1,1,1,0,1,0,0,0,0,0,0,0,1,
       1,0,0,0,0,0,0,0,1,0,1,1,1,1,1,1,0,0,0,0,0,0,0,0,0,0,0,0,0,0,0,0,
       1,0,1,1,0,0,0,0,1,0,1,1,1,0,1,1,1,1,1,1,0,0,0,0,1,0,1,1,0,0,0,1,
       1,0,0,0,1,1,0,0,1,0,1,0,1,1,1,1,1,1,0,0,1,1,0,0,1,0,0,0,1,1,0,1,
       1,0,1,0,1,0,0,0,1,0,1,0,1,0,1,1,1,1,1,1,1,1,0,1,1,0,1,1,1,1,1,1 >>

\* The lookup read one entry too far.
cornersAreManifoldShifted(corner_mask) ==
    corner_table[((corner_mask + 1) % NumMasks) + 1] = 1

\* return corner_table[corner_mask];  (the sequence is indexed from 1)
cornersAreManifold(corner_mask) ==
    corner_table[corner_mask + 1] = 1

\* The procedure the table was generated with, as given next to the table.
CubeEdges == << <<0, 1>>, <<0, 2>>, <<2, 3>>, <<1, 3>>,
               <<4, 5>>, <<4, 6>>, <<6, 7>>, <<5, 7>>,
               <<0, 4>>, <<2, 6>>, <<1, 5>>, <<3, 7>> >>

\* merge(a, b): a becomes b in every edge, edges that became loops vanish.
merge(edges, a, b) ==
    LET merged == [k \in 1 .. Len(edges) |->
                      << IF edges[k][1] # a THEN edges[k][1] ELSE b,
                         IF edges[k][2] # a THEN edges[k][2] ELSE b >>]
    IN  SelectSeq(merged, LAMBDA e : e[1] # e[2])

\* The edges whose two ends have the same sign under the mask.
Mergeable(edges, index) ==
    { k \in 1 .. Len(edges) : Bit(index, edges[k][1]) = Bit(index, edges[k][2]) }

\* while True: merge the first edge with equal ends, stop when there is none.
RECURSIVE MergeLoop(_, _)
MergeLoop(edges, index) ==
    IF Mergeable(edges, index) = {}
    THEN edges
    ELSE LET k == CHOOSE i \in Mergeable(edges, index) :
                      \A j \in Mergeable(edges, index) : i <= j
         IN  MergeLoop(merge(edges, edges[k][1], edges[k][2]), index)

\* tuple(sorted(t))
SortedEdge(e) == IF e[1] <= e[2] THEN e ELSE << e[2], e[1] >>

\* safe(index): at most one distinct edge is left.
safe(index) ==
    LET left == MergeLoop(CubeEdges, index)
    IN  Cardinality({ SortedEdge(left[k]) : k \in 1 .. Len(left) }) <= 1

\* One call of cornersAreManifold on any of the masks.
TableInit ==
    /\ RenderIdle
    /\ MeshIdle
    /\ \E corner_mask \in Masks :
          fn = [op |-> "cornersAreManifold", arg |-> << corner_mask >>,
                ret |-> << >>]

CallCornersAreManifold ==
    /\ fn.op = "cornersAreManifold"
    /\ fn.ret = << >>
    /\ fn' = [fn EXCEPT !.ret = << cornersAreManifold(fn.arg[1]) >>]
    /\ UNCHANGED << renderVars, meshVars >>

TableSpec == TableInit /\ [][CallCornersAreManifold]_vars

\* C20: for every one of the 256 corner masks, cornersAreManifold returns
\* what the edge-merge procedure on the 12 cube edges returns: true exactly
\* when contracting same-sign edges leaves at most one distinct edge.
C20_TableIsEdgeMerge ==
    (fn.op = "cornersAreManifold" /\ fn.ret # << >>)
        => fn.ret[1] = safe(fn.arg[1])

\* A mask the table rejects has been looked up (corners 1 and 2 set: 6).
C20_Witness ==
    /\ fn.op = "cornersAreManifold"
    /\ fn.ret = << FALSE >>
    /\ fn.arg = << 6 >>

(* ------- DCMesher::load, PerThreadBRep::pushVertex, BRep::collect *)

MaxMeshers == 2        \* mesher threads that call load
MaxBreps == 3          \* PerThreadBReps handed to collect
MaxLoads == 1          \* calls of load by one thread
MaxLeafLevel == 1      \* leaf->level of a leaf cell
MaxVertexCount == 2    \* leaf->vertex_count of a leaf at level 0
MaxCollectWorkers == 3 \* the workers argument of collect
NumLeafs == 8

LeafIds == 1 .. NumLeafs

\* Axis::X, Axis::Y, Axis::Z and the two axes that follow an axis.
X == 1
Y == 2
Z == 4
Axes == { X, Y, Z }
Q(A) == IF A = X THEN Y ELSE IF A = Y THEN Z ELSE X
R(A) == IF A = X THEN Z ELSE IF A = Y THEN X ELSE Y

\* a | b on corner numbers
BitOr(a, b) ==
    LET or(i) == IF Bit(a, i) \/ Bit(b, i) THEN 2^i ELSE 0
    IN  or(0) + or(1) + or(2)

\* A cell that is not AMBIGUOUS has no leaf.
NoLeaf(t) == [type |-> t, level |-> 0, corner_mask |-> 0, vertex_count |-> 0]

\* Corner masks with a sign change along X only, Y only, Z only, and at
\* corner 0 only.
SampleMasks == { 85, 204, 240, 1 }

\* vertex_count == 1 unless the leaf is at level 0.
AmbiguousLeafs ==
    { [type |-> AMBIGUOUS, level |-> l, corner_mask |-> m, vertex_count |-> n] :
        l \in 0 .. MaxLeafLevel, m \in SampleMasks, n \in 1 .. MaxVertexCount }

ValidLeaf(c) == c.type = AMBIGUOUS => (c.level = 0 \/ c.vertex_count = 1)

LeafKinds == { c \in AmbiguousLeafs \cup { NoLeaf(EMPTY), NoLeaf(FILLED) } :
                 ValidLeaf(c) }

\* The leaves one call of load is tried on: several vertices only with
\* the first of the masks.
LoadKinds == { c \in LeafKinds : c.vertex_count <= 1 \/ c.corner_mask = 85 }

\* cornerState: the type of a uniform cell, the mask bit of an ambiguous one.
cornerState(c, i) ==
    IF c.type = AMBIGUOUS
    THEN IF Bit(c.corner_mask, i) THEN FILLED ELSE EMPTY
    ELSE c.type

\* The four cells around an edge, as edge3 and face3 hand them to load:
\* four cells, or three when one cell spans two places of a face.
WalkQuads ==
    { << 1, 2, 3, 4 >>, << 5, 6, 7, 8 >>, << 3, 4, 5, 6 >>,
      << 1, 1, 3, 4 >>, << 1, 2, 3, 3 >>, << 1, 2, 1, 4 >>, << 1, 2, 3, 2 >> }

Cell(ts, i) == leafs[ts[i + 1]]

\* std::min_element on leaf->level: the first of the smallest.
MinLevelIndex(ts) ==
    CHOOSE i \in 0 .. 3 :
        /\ \A j \in 0 .. 3 : Cell(ts, i).level <= Cell(ts, j).level
        /\ \A j \in 0 .. 3 : j < i => Cell(ts, i).level < Cell(ts, j).level

\* corners = {Q|R, R, Q, 0}
corners(A) == << BitOr(Q(A), R(A)), R(A), Q(A), 0 >>

\* The counter was read and written back unchanged.
fetch_none(c) == c

\* c.fetch_add(1) on std::atomic<uint32_t>: the new value.  The counter
\* wraps after 2^32 - 1 vertices, far beyond the calls followed here.
fetch_add(c) == c + 1

EmptyBRep == [verts |-> << >>, indices |-> << >>, branes |-> << >>]

\* PerThreadBRep::pushVertex: the new brep, the new counter, the index.
pushVertex(b, c, v) ==
    [ brep    |-> [b EXCEPT !.verts = Append(@, v), !.indices = Append(@, c)],
      counter |-> fetch_add(c),
      out     |-> c ]

Meshers == DOMAIN breps

IdleLoad(n) ==
    [ pc |-> "idle", left |-> n, calls |-> 0, A |-> 0, ts |-> << >>,
      index |-> 0, a |-> "", b |-> "", D |-> -1, i |-> 0, vs |-> << >>,
      v0 |-> 0, b0 |-> 0, wound |-> << >>, cands |-> << >>,
      line |-> << >> ]

\* BRep(): verts holds the zero vertex, branes is empty.
NewMesh(cws) ==
    [ pc |-> "walk", args |-> cws, arg |-> 0, workers |-> 0,
      verts |-> << "zero" >>, branes |-> << >>,
      cursor |-> << >>, vwrites |-> << >>, bwrites |-> << >>,
      handled |-> << >>, threw |-> {}, vk |-> << >> ]

\* The leaves of a tree and the walk about to start: every leaf unindexed,
\* the counter at 1, one brep per thread.
WalkStart(n, loads, cws) ==
    /\ leafIndex = [c \in LeafIds |-> [vi \in 0 .. (MaxVertexCount - 1) |-> 0]]
    /\ counter = 1
    /\ breps = [w \in 1 .. n |-> EmptyBRep]
    /\ ld = [w \in 1 .. n |-> IdleLoad(loads[w])]
    /\ mesh = NewMesh(cws)

\* The cells another thread is loading: Dual::run works on a cell only
\* after the work on every cell below it, so two threads never hold the
\* same leaf.
Busy(w) ==
    UNION { { ld[o].ts[k] : k \in 1 .. Len(ld[o].ts) } :
              o \in { o \in Meshers : o # w /\ ld[o].pc # "idle" } }

OnlyFirstNotAmbiguous(ts) == Cell(ts, 0).type # AMBIGUOUS

\* std::any_of(ts.begin(), ts.end(), type != Interval::AMBIGUOUS)
AnyNotAmbiguous(ts) == \E k \in 0 .. 3 : Cell(ts, k).type # AMBIGUOUS

PolarityInverted(a) == IF a = FILLED THEN 0 ELSE 1

\* if (a != Interval::FILLED) load<A, 0>(ts); else load<A, 1>(ts);
Polarity(a) == IF a # FILLED THEN 0 ELSE 1

AlwaysFirstCell(index) == 0

\* ts[index] is the authoritative cell.
Authority(index) == index

\* load<A>(ts): return unless all four cells are AMBIGUOUS and the edge of
\* the smallest cell changes sign; otherwise go on to load<A, D>(ts).
LoadEnter(w) ==
    /\ mesh.pc = "walk"
    /\ ld[w].pc = "idle"
    /\ ld[w].left > 0
    /\ \E A \in Axes, ts \in WalkQuads :
          /\ { ts[k] : k \in 1 .. 4 } \cap Busy(w) = {}
          /\ LET entered == [IdleLoad(ld[w].left - 1) EXCEPT
                                !.calls = ld[w].calls + 1, !.A = A, !.ts = ts,
                                !.v0 = Len(breps[w].verts),
                                !.b0 = Len(breps[w].branes)]
             IN  IF AnyNotAmbiguous(ts)
                 THEN ld' = [ld EXCEPT ![w] = entered]
                 ELSE LET index == MinLevelIndex(ts)
                          at == Authority(index)
                          a == cornerState(Cell(ts, at), corners(A)[at + 1])
                          b == cornerState(Cell(ts, at),
                                           BitOr(corners(A)[at + 1], A))
                          tested == [entered EXCEPT !.index = index,
                                                    !.a = a, !.b = b]
                      IN  IF a # b
                          THEN ld' = [ld EXCEPT ![w] =
                                        [tested EXCEPT !.pc = "vertex",
                                                       !.D = Polarity(a)]]
                          ELSE ld' = [ld EXCEPT ![w] = tested]
    /\ UNCHANGED << renderVars, fn, leafs, leafIndex, counter, breps, mesh >>

\* The loop over the four cells without the test of leaf->index[vi]: the
\* vertex is pushed every time it is met.
LoadVertexAlways(w) ==
    /\ ld[w].pc = "vertex"
    /\ LET c == ld[w].ts[ld[w].i + 1]
           vis == IF leafs[c].level > 0 THEN { 0 }
                  ELSE 0 .. (leafs[c].vertex_count - 1)
       IN  \E vi \in vis :
             LET pushed == pushVertex(breps[w], counter, << c, vi >>)
             IN  /\ leafIndex' = [leafIndex EXCEPT ![c][vi] = pushed.out]
                 /\ counter' = pushed.counter
                 /\ breps' = [breps EXCEPT ![w] = pushed.brep]
                 /\ ld' = [ld EXCEPT ![w].vs = Append(@, pushed.out),
                                     ![w].i = @ + 1,
                                     ![w].pc = IF ld[w].i = 3 THEN "triangles"
                                               ELSE "vertex"]
    /\ UNCHANGED << renderVars, fn, leafs, mesh >>

\* One turn of the loop over the four cells: the vertex the cell has on
\* this edge gets an index the first time it is met.
LoadVertex(w) ==
    /\ ld[w].pc = "vertex"
    /\ LET c == ld[w].ts[ld[w].i + 1]
           vis == IF leafs[c].level > 0 THEN { 0 }
                  ELSE 0 .. (leafs[c].vertex_count - 1)
       IN  \E vi \in vis :
             LET fresh == leafIndex[c][vi] = 0
                 pushed == pushVertex(breps[w], counter, << c, vi >>)
                 ix == IF fresh THEN pushed.out ELSE leafIndex[c][vi]
             IN  /\ leafIndex' = [leafIndex EXCEPT ![c][vi] = ix]
                 /\ counter' = IF fresh THEN pushed.counter ELSE counter
                 /\ breps' = IF fresh THEN [breps EXCEPT ![w] = pushed.brep]
                             ELSE breps
                 /\ ld' = [ld EXCEPT ![w].vs = Append(@, ix),
                                     ![w].i = @ + 1,
                                     ![w].pc = IF ld[w].i = 3 THEN "triangles"
                                               ELSE "vertex"]
    /\ UNCHANGED << renderVars, fn, leafs, mesh >>

\* if (!D) std::swap(vs[1], vs[2]);
Wind(vs, D) == IF D = 0 THEN << vs[1], vs[3], vs[2], vs[4] >> ELSE vs

\* The two triangles with the second one of the first split turned round.
CandidatesTurned(vs, first) ==
    IF first
    THEN << << vs[1], vs[2], vs[3] >>, << vs[3], vs[4], vs[2] >> >>
    ELSE << << vs[1], vs[2], vs[4] >>, << vs[1], vs[4], vs[3] >> >>

\* The two triangles of the quad, split along the diagonal whose normals
\* agree more.
Candidates(vs, first) ==
    IF first
    THEN << << vs[1], vs[2], vs[3] >>, << vs[3], vs[2], vs[4] >> >>
    ELSE << << vs[1], vs[2], vs[4] >>, << vs[1], vs[4], vs[3] >> >>

KeepsAll(t) == TRUE

\* push_triangle: if (a != b && b != c && a != c)
Keeps(t) == t[1] # t[2] /\ t[2] # t[3] /\ t[1] # t[3]

\* saveNorm(a, b, c) of a quad in which two of the vertices a, b and c are
\* the same vertex: the cross product is (0, 0, 0).
ZeroNorm(vs, a, b, c) ==
    \/ vs[a + 1] = vs[b + 1]
    \/ vs[a + 1] = vs[c + 1]
    \/ vs[b + 1] = vs[c + 1]

\* Both dot products have a normal that is (0, 0, 0): the comparison is
\* 0 > 0 wherever the vertices are.
BothZero(vs) ==
    /\ ZeroNorm(vs, 0, 1, 2) \/ ZeroNorm(vs, 3, 2, 1)
    /\ ZeroNorm(vs, 1, 3, 0) \/ ZeroNorm(vs, 2, 0, 3)

\* The winding and the triangles of load<A, D>; the comparison of the
\* normals is an input, but for a quad in which it is 0 > 0.
LoadTriangles(w) ==
    /\ ld[w].pc = "triangles"
    /\ \E first \in BOOLEAN :
          LET vs == Wind(ld[w].vs, ld[w].D)
              cands == Candidates(vs, first)
          IN  /\ BothZero(vs) => ~first
              /\ breps' = [breps EXCEPT ![w].branes =
                                 @ \o SelectSeq(cands, Keeps)]
              /\ ld' = [ld EXCEPT ![w].pc = "idle", ![w].wound = vs,
                                  ![w].cands = cands]
    /\ UNCHANGED << renderVars, fn, leafs, leafIndex, counter, mesh >>

RECURSIVE SumSizes(_, _, _)
SumSizes(children, field, n) ==
    IF n = 0 THEN 0
    ELSE SumSizes(children, field, n - 1) + Len(children[n][field])

NumVertsNoSentinel(children) == SumSizes(children, "verts", Len(children))

\* num_verts = 1 + the sizes of the children's verts
NumVerts(children) == 1 + SumSizes(children, "verts", Len(children))

NumBranes(children) == SumSizes(children, "branes", Len(children))

\* if (workers == 0) workers = children.size();
CollectWorkers(cw, n) == IF cw = 0 THEN n ELSE cw

\* verts.resize(num_verts): the entries there already stay, the new ones
\* have no value yet; verts is 0-based from here on.
Resized(old, n) ==
    [k \in 0 .. (n - 1) |-> IF k < Len(old) THEN old[k + 1] ELSE "unset"]

\* collect up to the spawning of its tasks, called with one of the values
\* of workers.  The two assertions hold of a new BRep; when they fail, a
\* build with assertions aborts and a build with NDEBUG goes on.
CollectEnter ==
    /\ mesh.pc = "walk"
    /\ \A w \in Meshers : ld[w].pc = "idle"
    /\ \E cw \in mesh.args :
       LET n == Len(breps)
           wk == CollectWorkers(cw, n)
           fresh == Len(mesh.verts) = 1 /\ Len(mesh.branes) = 0
       IN  \E nd \in { ndebug } \cup (IF fresh THEN {} ELSE { TRUE }) :
           /\ ndebug' = nd
           /\ mesh' =
                IF ~fresh /\ ~nd
                THEN [mesh EXCEPT !.pc = "aborted", !.arg = cw]
                ELSE [mesh EXCEPT
                       !.pc = "collect",
                       !.arg = cw,
                       !.workers = wk,
                       !.verts = Resized(mesh.verts, NumVerts(breps)),
                       !.branes = Resized(mesh.branes, NumBranes(breps)),
                       !.vwrites = [k \in 0 .. (NumVerts(breps) - 1) |-> 0],
                       !.bwrites = [k \in 0 .. (NumBranes(breps) - 1) |-> 0],
                       !.cursor = [i \in 0 .. (wk - 1) |-> i],
                       !.vk = [i \in 0 .. (wk - 1) |-> 0],
                       !.handled = [j \in 0 .. (n - 1) |-> << >>]]
    /\ UNCHANGED << auxVarsButMesh, settingsVars, cancel, mpc, result,
                    rootOut, tree, tasks, local, done, pc, cur, idx,
                    root_lock, claimed, progress, hist >>

StrideOne(wk) == 1

\* j += workers
Stride(wk) == wk

OffsetZero(children, j) == 0

\* offset: the sizes of the branes of the children before child j
Offset(children, j) == SumSizes(children, "branes", j)

\* verts.at(c.indices.at(k)) = c.verts.at(k) throws std::out_of_range at
\* vertex k of child c: the slot is outside verts, or the child has no
\* vertex k.
Throws(c, k, slots) == c.indices[k] \notin slots \/ k > Len(c.verts)

\* Task i unpacks the next vertex of child j = cursor[i], vk[i] of them
\* being done: one write to verts, which the tasks share without a lock.
\* An exception ends the task and stays in its future: what the task wrote
\* stays written, the triangles of the child and the later children of the
\* task are not copied.
CollectVertex(i) ==
    /\ mesh.pc = "collect"
    /\ i \in DOMAIN mesh.cursor
    /\ i \notin mesh.threw
    /\ mesh.cursor[i] < Len(breps)
    /\ mesh.vk[i] < Len(breps[mesh.cursor[i] + 1].indices)
    /\ LET c == breps[mesh.cursor[i] + 1]
           k == mesh.vk[i] + 1
       IN  mesh' = IF Throws(c, k, DOMAIN mesh.verts)
                   THEN [mesh EXCEPT !.threw = @ \cup { i }]
                   ELSE [mesh EXCEPT !.verts[c.indices[k]] = c.verts[k],
                                     !.vwrites[c.indices[k]] = @ + 1,
                                     !.vk[i] = k]
    /\ UNCHANGED << renderVars, fn, leafs, leafIndex, counter, breps, ld >>

\* Task i has unpacked the vertices of child j = cursor[i]: it copies the
\* triangles to the slots from the child's offset on, which no other
\* child has, and goes on to child j + workers.
CollectChild(i) ==
    /\ mesh.pc = "collect"
    /\ i \in DOMAIN mesh.cursor
    /\ i \notin mesh.threw
    /\ mesh.cursor[i] < Len(breps)
    /\ mesh.vk[i] = Len(breps[mesh.cursor[i] + 1].indices)
    /\ LET j == mesh.cursor[i]
           c == breps[j + 1]
           offset == Offset(breps, j)
           bslots == offset .. (offset + Len(c.branes) - 1)
       IN  mesh' = [mesh EXCEPT
                  !.branes = [s \in DOMAIN mesh.branes |->
                      IF s \in bslots THEN c.branes[s - offset + 1]
                      ELSE mesh.branes[s]],
                  !.bwrites = [s \in DOMAIN mesh.bwrites |->
                      IF s \in bslots THEN mesh.bwrites[s] + 1
                      ELSE mesh.bwrites[s]],
                  !.cursor[i] = j + Stride(mesh.workers),
                  !.vk[i] = 0,
                  !.handled[j] = Append(@, i)]
    /\ UNCHANGED << renderVars, fn, leafs, leafIndex, counter, breps, ld >>

\* for (auto& f : futures) f.wait(): every task has gone through its
\* children or has thrown; wait() does not rethrow.
CollectReturn ==
    /\ mesh.pc = "collect"
    /\ \A i \in DOMAIN mesh.cursor :
          mesh.cursor[i] >= Len(breps) \/ i \in mesh.threw
    /\ mesh' = [mesh EXCEPT !.pc = "done"]
    /\ UNCHANGED << renderVars, fn, leafs, leafIndex, counter, breps, ld >>

MeshNext ==
    \/ \E w \in Meshers : LoadEnter(w)
    \/ \E w \in Meshers : LoadVertex(w)
    \/ \E w \in Meshers : LoadTriangles(w)
    \/ CollectEnter
    \/ \E i \in 0 .. (MaxCollectWorkers - 1) : CollectVertex(i)
    \/ \E i \in 0 .. (MaxCollectWorkers - 1) : CollectChild(i)
    \/ CollectReturn

\* One call of load by one thread on any four leaves, then collect as
\* Dual::walk_ calls it.
LoadInit ==
    /\ RenderIdle
    /\ FnIdle
    /\ \E q \in [1 .. 4 -> LoadKinds] :
          leafs = [c \in LeafIds |-> IF c <= 4 THEN q[c] ELSE NoLeaf(EMPTY)]
    /\ WalkStart(1, << MaxLoads >>, { 0 })

LoadSpec == LoadInit /\ [][MeshNext]_vars

\* Two threads loading the edges of one tree of ambiguous leaves, a
\* third thread that never gets a task, then collect with any workers.
MeshInit ==
    /\ RenderIdle
    /\ FnIdle
    /\ leafs = [c \in LeafIds |->
                  [type |-> AMBIGUOUS, level |-> 0, corner_mask |-> 85,
                   vertex_count |-> IF c = 1 THEN MaxVertexCount ELSE 1]]
    /\ WalkStart(MaxBreps,
                 [w \in 1 .. MaxBreps |->
                     IF w <= MaxMeshers THEN MaxLoads ELSE 0],
                 0 .. MaxCollectWorkers)

MeshSpec == MeshInit /\ [][MeshNext]_vars

(* ----------------------------------- the breps as a caller may use them *)
\* The members of BRep and PerThreadBRep are public, and two operations no
\* walk calls are too: PerThreadBRep::drawDebugLine and BRep::pushVertex.
\* MaxDebugLines is the most debug lines drawn, MaxMeshPushes the most
\* vertices pushed to the BRep itself, MaxHandVerts the most vertices of a
\* child filled in by hand, HandChildren the number of such children.
MaxDebugLines == 2
MaxMeshPushes == 1
MaxHandVerts == 2
HandChildren == 2

\* The positions given to drawDebugLine and BRep::pushVertex: a point is
\* written like the vertex of a leaf, under the leaf number 0.
DebugPoints == { << 0, a >> : a \in 1 .. 2 }

\* A debug line of a brep: a triangle that starts and ends at one vertex.
IsDebugLine(t) == t[1] = t[3]

\* The debug lines drawn or being drawn.
DebugLines ==
    Cardinality({ << w, k >> \in Meshers \X (1 .. (1 + MaxDebugLines)) :
                    k <= Len(breps[w].branes)
                    /\ IsDebugLine(breps[w].branes[k]) })
    + Cardinality({ w \in Meshers : ld[w].pc = "line" })

\* PerThreadBRep::drawDebugLine(a, b) up to its second pushVertex: the
\* first pushVertex, with its fetch_add on the counter the breps share.
\* line holds a_ and the point b still to push.
DrawDebugLine(w) ==
    /\ mesh.pc = "walk"
    /\ w \in Meshers
    /\ ld[w].pc = "idle"
    /\ DebugLines < MaxDebugLines
    /\ \E pa \in DebugPoints, pb \in DebugPoints :
          LET pushed == pushVertex(breps[w], counter, pa)
          IN  /\ breps' = [breps EXCEPT ![w] = pushed.brep]
              /\ counter' = pushed.counter
              /\ ld' = [ld EXCEPT ![w].pc = "line",
                                  ![w].line = << pushed.out, pb >>]
    /\ UNCHANGED << renderVars, fn, leafs, leafIndex, mesh >>

\* The rest of drawDebugLine: the second pushVertex, which takes the
\* counter as the other threads have left it, and branes.push_back.
DrawDebugLineEnd(w) ==
    /\ mesh.pc = "walk"
    /\ w \in Meshers
    /\ ld[w].pc = "line"
    /\ LET a_ == ld[w].line[1]
           pushed == pushVertex(breps[w], counter, ld[w].line[2])
       IN  /\ breps' = [breps EXCEPT ![w] =
                  [pushed.brep EXCEPT !.branes =
                      Append(@, << a_, pushed.out, a_ >>)]]
           /\ counter' = pushed.counter
           /\ ld' = [ld EXCEPT ![w].pc = "idle", ![w].line = << >>]
    /\ UNCHANGED << renderVars, fn, leafs, leafIndex, mesh >>

\* BRep::pushVertex(v), before collect: out = verts.size(), then push_back.
BRepPushVertex ==
    /\ mesh.pc = "walk"
    /\ Len(mesh.verts) < 1 + MaxMeshPushes
    /\ \E v \in DebugPoints : mesh' = [mesh EXCEPT !.verts = Append(@, v)]
    /\ UNCHANGED << renderVars, fn, leafs, leafIndex, counter, breps, ld >>

\* An index past the end of the collected verts, whatever the children.
PastEnd == 1 + HandChildren * MaxHandVerts

\* The children a caller can fill in by hand: up to MaxHandVerts vertices,
\* each with a low index or one past the end of the collected verts, and
\* one triangle.
HandMade(w) ==
    { [ verts |-> [k \in 1 .. Len(ix) |-> << 0, MaxHandVerts * (w - 1) + k >>],
        indices |-> ix,
        branes |-> << << w, w + 1, w + 2 >> >> ] :
      ix \in UNION { [1 .. m -> (1 .. MaxHandVerts) \cup { PastEnd }] :
                      m \in 0 .. MaxHandVerts } }

\* Children made by hand, no load to come, collect with any workers, in a
\* build with assertions or with NDEBUG.
BRepInit ==
    /\ RenderIdle
    /\ FnIdle
    /\ leafs = << >>
    /\ leafIndex = << >>
    /\ counter = 1
    /\ breps \in { b \in [1 .. HandChildren ->
                            UNION { HandMade(w) : w \in 1 .. HandChildren }] :
                     \A w \in 1 .. HandChildren : b[w] \in HandMade(w) }
    /\ ld = [w \in 1 .. HandChildren |-> IdleLoad(0)]
    /\ mesh = NewMesh(0 .. HandChildren)

BRepNext ==
    \/ \E w \in 1 .. HandChildren : DrawDebugLine(w)
    \/ \E w \in 1 .. HandChildren : DrawDebugLineEnd(w)
    \/ BRepPushVertex
    \/ CollectEnter
    \/ \E i \in 0 .. (HandChildren - 1) : CollectVertex(i)
    \/ \E i \in 0 .. (HandChildren - 1) : CollectChild(i)
    \/ CollectReturn

BRepSpec == BRepInit /\ [][BRepNext]_vars

(* ------------------------------------------- properties of the mesher *)

Range(q) == { q[k] : k \in DOMAIN q }

\* The indices pushVertex has returned so far, over all threads.
Issued == UNION { Range(breps[w].indices) : w \in Meshers }

\* The number of pushVertex calls so far.
Calls == SumSizes(breps, "indices", Len(breps))

\* C13: whatever the interleaving of the threads' pushVertex calls, each
\* call moves the shared counter by exactly one (it stands at 1 + the
\* number of calls), no index is returned twice, within a thread or across
\* threads, after k calls the indices returned are exactly 1..k, and the
\* indices and verts of every PerThreadBRep have the same length.
C13_PushVertex ==
    mesh.pc # "none" =>
        /\ counter = 1 + Calls
        /\ Cardinality(Issued) = Calls
        /\ Issued = 1 .. Calls
        /\ \A w \in Meshers : Len(breps[w].indices) = Len(breps[w].verts)

\* Two threads have pushed vertices in turn: the first got 1 and 3, the
\* second got 2.
C13_Witness ==
    /\ mesh.pc = "walk"
    /\ Len(breps[1].indices) >= 2
    /\ breps[1].indices[1] = 1
    /\ breps[1].indices[2] = 3
    /\ Len(breps[2].indices) >= 1
    /\ breps[2].indices[1] = 2

\* The triangles of the first n children, one child after the other.
RECURSIVE AllBranes(_)
AllBranes(n) == IF n = 0 THEN << >>
                ELSE AllBranes(n - 1) \o breps[n].branes

\* C12: when collect has returned, verts[0] is still the zero vertex, verts
\* has 1 + the children's vertex counts entries and holds every child
\* vertex at the slot of its index (so verts[1..] is a permutation of the
\* children's vertices), and branes holds the children's triangles once
\* each, child after child: child j's triangles start at the sum of the
\* triangle counts of the children before it.
C12_Collect ==
    mesh.pc = "done" =>
        /\ mesh.verts[0] = "zero"
        /\ DOMAIN mesh.verts = 0 .. Calls
        /\ \A w \in Meshers : \A k \in 1 .. Len(breps[w].indices) :
              breps[w].verts[k] = mesh.verts[breps[w].indices[k]]
        /\ \A s \in 1 .. Calls : mesh.verts[s] # "unset"
        /\ DOMAIN mesh.branes = 0 .. (Len(AllBranes(Len(breps))) - 1)
        /\ \A k \in 1 .. Len(AllBranes(Len(breps))) :
              AllBranes(Len(breps))[k] = mesh.branes[k - 1]

\* collect has returned with vertices and triangles of two children.
C12_Witness ==
    /\ mesh.pc = "done"
    /\ Len(breps[1].branes) >= 1
    /\ Len(breps[2].branes) >= 1
    /\ Len(breps[1].indices) >= 1
    /\ Len(breps[2].indices) >= 1

\* C14: in collect every child is copied by exactly one task, the task
\* j mod workers (workers being the number of children when collect is
\* called with 0), and no slot of verts or of branes is written twice.
C14_OneTaskPerChild ==
    mesh.pc \in { "collect", "done" } =>
        /\ mesh.workers = IF mesh.arg = 0 THEN Len(breps) ELSE mesh.arg
        /\ \A j \in DOMAIN mesh.handled :
              /\ Len(mesh.handled[j]) <= 1
              /\ mesh.pc = "done" => Len(mesh.handled[j]) = 1
              /\ \A k \in 1 .. Len(mesh.handled[j]) :
                    mesh.handled[j][k] = j % mesh.workers
        /\ \A s \in DOMAIN mesh.vwrites : mesh.vwrites[s] <= 1
        /\ \A s \in DOMAIN mesh.bwrites : mesh.bwrites[s] <= 1

\* collect was called with workers = 2 on three children, two of them with
\* vertices and triangles: task 0 copied children 0 and 2.
C14_Witness ==
    /\ mesh.pc = "done"
    /\ mesh.arg = 2
    /\ mesh.handled[0] = << 0 >>
    /\ mesh.handled[1] = << 1 >>
    /\ mesh.handled[2] = << 0 >>
    /\ Len(breps[1].branes) >= 1
    /\ Len(breps[2].branes) >= 1

\* C11: in the mesh collect hands back, every index stored in branes is
\* at least 1 and below verts.size(), whatever the threads loaded and
\* however they interleaved; collect never meets an index outside verts.
C11_IndexValidity ==
    /\ mesh.pc # "none" => mesh.threw = {}
    /\ mesh.pc = "done" =>
          \A s \in DOMAIN mesh.branes : \A k \in 1 .. 3 :
              /\ mesh.branes[s][k] >= 1
              /\ mesh.branes[s][k] < Cardinality(DOMAIN mesh.verts)

\* The mesh holds a triangle of the second thread that uses a vertex the
\* first thread pushed.
C11_Witness ==
    /\ mesh.pc = "done"
    /\ \E k \in 1 .. Len(breps[2].branes) : \E n \in 1 .. 3 :
          breps[2].branes[k][n] \in Range(breps[1].indices)

\* The corner of cell i at which the edge along A shared by the four
\* cells starts, axis by axis.
EdgeCorner(A, i) ==
    IF A = X THEN << 6, 4, 2, 0 >>[i + 1]
    ELSE IF A = Y THEN << 5, 1, 4, 0 >>[i + 1]
    ELSE << 3, 2, 1, 0 >>[i + 1]

AllAmbiguous(ts) == \A k \in 0 .. 3 : Cell(ts, k).type = AMBIGUOUS

\* The first of the cells with the smallest level.
Smallest(ts) ==
    CHOOSE i \in 0 .. 3 :
        /\ \A j \in 0 .. 3 : Cell(ts, j).level >= Cell(ts, i).level
        /\ ~ \E j \in 0 .. (i - 1) : Cell(ts, j).level = Cell(ts, i).level

\* The states at the low and the high end of the authoritative edge.
LowEnd(A, ts) == cornerState(Cell(ts, Smallest(ts)), EdgeCorner(A, Smallest(ts)))
HighEnd(A, ts) ==
    cornerState(Cell(ts, Smallest(ts)), EdgeCorner(A, Smallest(ts)) + A)

\* What the call of thread w has added to its brep so far.
AddedVerts(w) == Len(breps[w].verts) - ld[w].v0
AddedBranes(w) == SubSeq(breps[w].branes, ld[w].b0 + 1, Len(breps[w].branes))

\* Thread w is in a call of load, or has returned from one.
Called(w) == mesh.pc = "walk" /\ ld[w].calls > 0

\* C15: a call of load<A> gets past its tests, pushes a vertex or pushes a
\* triangle only if the edge along A at corner {Q|R, R, Q, 0}[i] of the
\* cell i of smallest leaf level has different states at its two ends;
\* when the two states are equal nothing is added.
C15_OnlyOnSignChange ==
    \A w \in Meshers :
        (Called(w) /\ AllAmbiguous(ld[w].ts)) =>
            /\ (ld[w].pc # "idle" \/ AddedVerts(w) > 0 \/ AddedBranes(w) # << >>)
                  => LowEnd(ld[w].A, ld[w].ts) # HighEnd(ld[w].A, ld[w].ts)
            /\ LowEnd(ld[w].A, ld[w].ts) = HighEnd(ld[w].A, ld[w].ts)
                  => /\ ld[w].pc = "idle"
                     /\ AddedVerts(w) = 0
                     /\ AddedBranes(w) = << >>

\* A call has returned with triangles where the smallest cell is the
\* third one, and the first cell has no sign change on its own edge.
C15_Witness ==
    /\ Called(1)
    /\ ld[1].pc = "idle"
    /\ AllAmbiguous(ld[1].ts)
    /\ Smallest(ld[1].ts) = 2
    /\ AddedBranes(1) # << >>
    /\ cornerState(Cell(ld[1].ts, 0), EdgeCorner(ld[1].A, 0))
         = cornerState(Cell(ld[1].ts, 0), EdgeCorner(ld[1].A, 0) + ld[1].A)

\* C16: a call of load with a cell that is not AMBIGUOUS returns at once
\* and adds neither a vertex nor a triangle nor an index; and when no call
\* of the walk had four AMBIGUOUS cells, the collected mesh has the zero
\* vertex alone in verts and no branes.
C16_NothingWithoutAmbiguous ==
    /\ \A w \in Meshers :
          (ld[w].calls > 0 /\ ~ AllAmbiguous(ld[w].ts)) =>
              /\ ld[w].pc = "idle"
              /\ AddedVerts(w) = 0
              /\ AddedBranes(w) = << >>
    /\ (mesh.pc = "done"
          /\ \A w \in Meshers : ld[w].calls > 0 => ~ AllAmbiguous(ld[w].ts))
          => /\ DOMAIN mesh.verts = { 0 }
             /\ mesh.verts[0] = "zero"
             /\ DOMAIN mesh.branes = {}
             /\ \A c \in LeafIds : \A vi \in DOMAIN leafIndex[c] :
                   leafIndex[c][vi] = 0

\* collect has returned after a call on three AMBIGUOUS cells with a sign
\* change on the first one's edge and one FILLED cell.
C16_Witness ==
    /\ mesh.pc = "done"
    /\ ld[1].calls > 0
    /\ ld[1].ts = << 1, 2, 3, 4 >>
    /\ leafs[4].type = FILLED
    /\ \A c \in 1 .. 3 : leafs[c].type = AMBIGUOUS
    /\ cornerState(leafs[1], EdgeCorner(ld[1].A, 0))
         # cornerState(leafs[1], EdgeCorner(ld[1].A, 0) + ld[1].A)

Distinct3(t) == Cardinality({ t[1], t[2], t[3] }) = 3

\* The call of thread w has pushed its triangles.
Triangulated(w) == ld[w].calls > 0 /\ ld[w].pc = "idle" /\ ld[w].cands # << >>

\* C17: no triangle in a brep has two equal indices; a call of load adds
\* at most two triangles; and of the two candidate triangles of the quad
\* exactly those without a repeated index are added, in order, so that a
\* dropped candidate leaves the other one in place.
C17_NoDegenerateTriangle ==
    \A w \in Meshers :
        /\ \A k \in 1 .. Len(breps[w].branes) : Distinct3(breps[w].branes[k])
        /\ ld[w].calls > 0 => Len(AddedBranes(w)) <= 2
        /\ Triangulated(w) =>
              /\ Len(ld[w].cands) = 2
              /\ AddedBranes(w) = SelectSeq(ld[w].cands, Distinct3)
              /\ Len(AddedBranes(w)) >= 1

\* A call on a quad in which one cell stands twice has dropped the first
\* candidate and pushed the second.
C17_Witness ==
    /\ Triangulated(1)
    /\ ~ Distinct3(ld[1].cands[1])
    /\ AddedBranes(1) = << ld[1].cands[2] >>

\* The call of thread w found a sign change and chose its polarity.
Polarised(w) == ld[w].calls > 0 /\ ld[w].D # -1

\* Cells 1 and 2 exchanged.
Swapped(vs) == << vs[1], vs[3], vs[2], vs[4] >>

\* C18 as stated: D is 0 when the authoritative edge goes from FILLED at
\* its low end to EMPTY at its high end and 1 otherwise, and cells 1 and 2
\* are swapped exactly when D is 0.
C18_PolarityAsStated ==
    \A w \in Meshers :
        /\ Polarised(w) =>
              ld[w].D = IF LowEnd(ld[w].A, ld[w].ts) = FILLED THEN 0 ELSE 1
        /\ Triangulated(w) =>
              ld[w].wound = IF ld[w].D = 0 THEN Swapped(ld[w].vs) ELSE ld[w].vs

\* C18: D is 1 when the authoritative edge goes from FILLED at its low end
\* to EMPTY at its high end and 0 when it goes from EMPTY to FILLED, and
\* cells 1 and 2 are swapped exactly when D is 0.
C18_Polarity ==
    \A w \in Meshers :
        /\ Polarised(w) =>
              /\ LowEnd(ld[w].A, ld[w].ts) # HighEnd(ld[w].A, ld[w].ts)
              /\ ld[w].D = IF LowEnd(ld[w].A, ld[w].ts) = FILLED THEN 1 ELSE 0
        /\ Triangulated(w) =>
              ld[w].wound = IF ld[w].D = 0 THEN Swapped(ld[w].vs) ELSE ld[w].vs

\* A call on an edge that leaves the shape (FILLED below, EMPTY above) has
\* pushed its triangles with D = 1 and the four cells in their order.
C18_Witness ==
    /\ Triangulated(1)
    /\ LowEnd(ld[1].A, ld[1].ts) = FILLED
    /\ HighEnd(ld[1].A, ld[1].ts) = EMPTY
    /\ ld[1].D = 1
    /\ ld[1].vs[2] # ld[1].vs[3]
    /\ ld[1].wound = ld[1].vs

(* --------------------------------------- DCTree<3>::leafsAreManifold *)

MaxFlips == 2          \* midpoints whose sign differs from the base field

\* The 27 points at which the 8 children of a cell have their corners:
\* coordinates 0, 1, 2 along each axis, 1 being a midpoint of the cell.
Pt(x, y, z) == x + 3 * y + 9 * z
Points == 0 .. 26
PtX(p) == p % 3
PtY(p) == (p \div 3) % 3
PtZ(p) == p \div 9

\* The bit of corner (or child) number c along each axis.
BitX(c) == c % 2
BitY(c) == (c \div 2) % 2
BitZ(c) == c \div 4

CornerIds == 0 .. (NumCorners - 1)

\* Corner j of child i, and corner c of the cell itself.
ChildPt(i, j) == Pt(BitX(i) + BitX(j), BitY(i) + BitY(j), BitZ(i) + BitZ(j))
CornerPt(c) == Pt(2 * BitX(c), 2 * BitY(c), 2 * BitZ(c))

State(filled) == IF filled THEN FILLED ELSE EMPTY

\* cs[i]->cornerState(j) for the children of a cell with the given signs.
ChildStates(field) ==
    [i \in CornerIds |-> [j \in CornerIds |-> State(field[ChildPt(i, j)])]]

\* corners[i]: the corner i of the cell is the corner i of child i.
CellCorners(cs) == [i \in CornerIds |-> cs[i][i]]

\* corner_mask: bit i is set when corner i is FILLED.
RECURSIVE MaskBits(_, _)
MaskBits(corners_, n) ==
    IF n = 0 THEN 0
    ELSE MaskBits(corners_, n - 1)
           + (IF corners_[n - 1] = FILLED THEN 2^(n - 1) ELSE 0)

CornerMask(corners_) == MaskBits(corners_, NumCorners)

XY == BitOr(X, Y)
XZ == BitOr(X, Z)
YZ == BitOr(Y, Z)
XYZ == BitOr(XY, Z)

edges_safe(cs, corners_) ==
    /\ (cs[0][Z] = corners_[0] \/ cs[0][Z] = corners_[Z])
    /\ (cs[0][X] = corners_[0] \/ cs[0][X] = corners_[X])
    /\ (cs[0][Y] = corners_[0] \/ cs[0][Y] = corners_[Y])
    /\ (cs[X][XY] = corners_[X] \/ cs[X][XY] = corners_[XY])
    /\ (cs[X][XZ] = corners_[X] \/ cs[X][XZ] = corners_[XZ])
    /\ (cs[Y][XY] = corners_[Y] \/ cs[Y][XY] = corners_[XY])
    /\ (cs[Y][YZ] = corners_[Y] \/ cs[Y][YZ] = corners_[YZ])
    /\ (cs[XY][XYZ] = corners_[XY] \/ cs[XY][XYZ] = corners_[XYZ])
    /\ (cs[Z][XZ] = corners_[Z] \/ cs[Z][XZ] = corners_[XZ])
    /\ (cs[Z][YZ] = corners_[Z] \/ cs[Z][YZ] = corners_[YZ])
    /\ (cs[XZ][XYZ] = corners_[XZ] \/ cs[XZ][XYZ] = corners_[XYZ])
    /\ (cs[YZ][XYZ] = corners_[YZ] \/ cs[YZ][XYZ] = corners_[XYZ])

faces_safe(cs, corners_) ==
    /\ cs[0][XZ] \in { corners_[0], corners_[X], corners_[Z], corners_[XZ] }
    /\ cs[0][YZ] \in { corners_[0], corners_[Y], corners_[Z], corners_[YZ] }
    /\ cs[0][XY] \in { corners_[0], corners_[Y], corners_[X], corners_[XY] }
    /\ cs[XYZ][X] \in { corners_[X], corners_[XZ], corners_[XY], corners_[XYZ] }
    /\ cs[XYZ][Y] \in { corners_[Y], corners_[YZ], corners_[XY], corners_[XYZ] }
    /\ cs[XYZ][Z] \in { corners_[Z], corners_[YZ], corners_[XZ], corners_[XYZ] }

\* The sign in the centre was taken as agreeing.
center_unchecked(cs, corners_) == TRUE

center_safe(cs, corners_) ==
    cs[0][XYZ] \in { corners_[0], corners_[X], corners_[Y], corners_[XY],
                     corners_[Z], corners_[XZ], corners_[YZ], corners_[XYZ] }

\* The centre of the cell was not looked at.
EdgesAndFacesSafe(cs, corners_) ==
    edges_safe(cs, corners_) /\ faces_safe(cs, corners_)

\* return edges_safe && faces_safe && center_safe;
leafsAreManifold(cs, corners_) ==
    edges_safe(cs, corners_) /\ faces_safe(cs, corners_)
        /\ center_safe(cs, corners_)

\* The children are leaves: the cell becomes EMPTY or FILLED when all of
\* them are, an AMBIGUOUS leaf with one vertex when both manifold tests
\* pass and the error of the fused QEF is small enough, and stays a
\* branch otherwise.
collectChildren(field, qef_ok) ==
    LET cs == ChildStates(field)
        corners_ == CellCorners(cs)
    IN  IF \A p \in Points : field[p] = field[0]
        THEN State(field[0])
        ELSE IF /\ cornersAreManifold(CornerMask(corners_))
                /\ leafsAreManifold(cs, corners_)
                /\ qef_ok
             THEN "leaf"
             ELSE "branch"

\* The corner of the cell whose sign a point takes in the base field:
\* its own for a corner, the lowest of the neighbouring ones for a
\* midpoint.
BaseCorner(p) ==
    (IF PtX(p) = 2 THEN X ELSE 0) + (IF PtY(p) = 2 THEN Y ELSE 0)
        + (IF PtZ(p) = 2 THEN Z ELSE 0)

MidPoints == { p \in Points : PtX(p) = 1 \/ PtY(p) = 1 \/ PtZ(p) = 1 }

\* The signs at the 27 points: the corners as in the mask, the midpoints
\* as in the base field except for the flipped ones.
Field(mask, flips) ==
    [p \in Points |->
        IF p \in flips THEN ~ Bit(mask, BaseCorner(p))
        ELSE Bit(mask, BaseCorner(p))]

\* One call of collectChildren on a cell whose 8 children are leaves, for
\* any corner mask and up to MaxFlips flipped midpoints.
CollapseInit ==
    /\ RenderIdle
    /\ MeshIdle
    /\ \E mask \in Masks, n \in 0 .. MaxFlips, qef_ok \in BOOLEAN :
          \E f \in [1 .. n -> MidPoints] :
              /\ \A k \in 1 .. (n - 1) : f[k] < f[k + 1]
              /\ fn = [op |-> "collectChildren",
                       arg |-> << Field(mask, { f[k] : k \in 1 .. n }),
                                  qef_ok >>,
                       ret |-> << >>]

CallCollectChildren ==
    /\ fn.op = "collectChildren"
    /\ fn.ret = << >>
    /\ fn' = [fn EXCEPT !.ret = << collectChildren(fn.arg[1], fn.arg[2]) >>]
    /\ UNCHANGED << renderVars, meshVars >>

CollapseSpec == CollapseInit /\ [][CallCollectChildren]_vars

\* The corners of the cell that bound the edge, the face or the cell a
\* point lies in the middle of (the point itself for a corner).
Around(p) ==
    { c \in CornerIds : /\ PtX(p) \in { 1, 2 * BitX(c) }
                        /\ PtY(p) \in { 1, 2 * BitY(c) }
                        /\ PtZ(p) \in { 1, 2 * BitZ(c) } }

\* The sign tests of Ju et al.: the sign in the middle of an edge, a face
\* or the cell agrees with the sign at one of the surrounding corners.
JuSafe(field) ==
    \A p \in MidPoints : \E c \in Around(p) : field[p] = field[CornerPt(c)]

\* The corner mask of the cell read off the field.
FieldMask(field) ==
    LET b(c) == IF field[CornerPt(c)] THEN 2^c ELSE 0
    IN  b(0) + b(1) + b(2) + b(3) + b(4) + b(5) + b(6) + b(7)

\* C19: a cell whose children are leaves becomes a single-vertex
\* AMBIGUOUS leaf only if the sign tests of Ju et al. hold on its
\* children and its corner mask is manifold (the edge-merge procedure
\* leaves at most one edge); if either fails the cell stays a branch.
C19_CollapseOnlyIfManifold ==
    (fn.op = "collectChildren" /\ fn.ret # << >>) =>
        /\ fn.ret[1] = "leaf" =>
              JuSafe(fn.arg[1]) /\ safe(FieldMask(fn.arg[1]))
        /\ (~ JuSafe(fn.arg[1]) \/ ~ safe(FieldMask(fn.arg[1])))
              => fn.ret[1] = "branch"

\* A cell stayed a branch because the sign in its centre differs from all
\* its corners, though its corner mask is manifold and the QEF fits.
C19_Witness ==
    /\ fn.op = "collectChildren"
    /\ fn.ret = << "branch" >>
    /\ fn.arg[2]
    /\ safe(FieldMask(fn.arg[1]))
    /\ \A c \in CornerIds : fn.arg[1][CornerPt(c)] # fn.arg[1][Pt(1, 1, 1)]

(* ----------------------------- DCTree<3>::leafsAreManifold on its own *)

\* One call of leafsAreManifold on the children and the corners of a
\* cell, for any corner mask and up to MaxFlips flipped midpoints.
LeafsInit ==
    /\ RenderIdle
    /\ MeshIdle
    /\ \E mask \in Masks, n \in 0 .. MaxFlips :
          \E f \in [1 .. n -> MidPoints] :
              /\ \A k \in 1 .. (n - 1) : f[k] < f[k + 1]
              /\ fn = [op |-> "leafsAreManifold",
                       arg |-> << Field(mask, { f[k] : k \in 1 .. n }) >>,
                       ret |-> << >>]

CallLeafsAreManifold ==
    /\ fn.op = "leafsAreManifold"
    /\ fn.ret = << >>
    /\ fn' = [fn EXCEPT !.ret =
                << leafsAreManifold(ChildStates(fn.arg[1]),
                                    CellCorners(ChildStates(fn.arg[1]))) >>]
    /\ UNCHANGED << renderVars, meshVars >>

LeafsSpec == LeafsInit /\ [][CallLeafsAreManifold]_vars

\* The midpoints of the 12 edges, of the 6 faces and of the cell: one,
\* two and three coordinates in the middle.
Middles(p) == Cardinality({ a \in 1 .. 3 :
                  << PtX(p), PtY(p), PtZ(p) >>[a] = 1 })

\* C21: leafsAreManifold returns true exactly when the sign at the
\* midpoint of each of the 12 edges of the cell equals the sign at one of
\* the edge's two ends, the sign at the midpoint of each of the 6 faces
\* equals the sign at one of the face's four corners, and the sign at the
\* centre equals the sign at one of the eight corners.
C21_LeafsAreManifoldIsJu ==
    (fn.op = "leafsAreManifold" /\ fn.ret # << >>) =>
        /\ Cardinality({ p \in MidPoints : Middles(p) = 1 }) = 12
        /\ Cardinality({ p \in MidPoints : Middles(p) = 2 }) = 6
        /\ \A p \in MidPoints : Cardinality(Around(p)) = 2^Middles(p)
        /\ fn.ret[1] = JuSafe(fn.arg[1])

\* leafsAreManifold has returned false for a cell where only the middle
\* of the face x = 2 disagrees with its four corners.
C21_Witness ==
    /\ fn.op = "leafsAreManifold"
    /\ fn.ret = << FALSE >>
    /\ \A p \in MidPoints :
          (\E c \in Around(p) : fn.arg[1][p] = fn.arg[1][CornerPt(c)])
              <=> p # Pt(2, 1, 1)

\* C24: every build worker hands its object pool to the Root exactly once,
\* on whichever way it leaves its loop, and holds root_lock while it does;
\* no two workers are inside root.claim together; and build returns only
\* when every worker has handed its pool over.
C24_PoolsClaimedUnderLock ==
    /\ \A w \in AllWorkers :
          /\ claimed[w] <= 1
          /\ pc[w] = "claim" => root_lock = w /\ claimed[w] = 0
          /\ (InBuild /\ pc[w] = "exited") => claimed[w] = 1
          /\ w \notin Workers => claimed[w] = 0
    /\ Cardinality({ w \in AllWorkers : pc[w] = "claim" }) <= 1
    /\ mpc \notin { "render", "build", "build_join" } =>
          \A w \in Workers : claimed[w] = 1

\* build has returned after a cancelled run of two workers in which the
\* root was never finished: both left on seeing cancel, both handed over.
C24_Witness ==
    /\ mpc = "check"
    /\ workers = 2
    /\ cancel
    /\ tree[root].type = UNKNOWN
    /\ \A w \in Workers : claimed[w] = 1

\* C27: with at least one worker, the build's done flag is true only when
\* the bottom-up collection of the root is over or cancel is set; so
\* done || cancel holds after the join, and a Root that build returns
\* non-empty holds a completely built tree.
C27_DoneMeansBuilt ==
    workers >= 1 =>
        /\ (mpc = "build_join" /\ done) => (cancel \/ Finished(tree, root))
        /\ (mpc = "check") => (done \/ cancel)
        /\ (mpc = "check" /\ rootOut # NULL) =>
              /\ done
              /\ hist.built
              /\ \A c \in Cells : tree[c].type # FREE => Finished(tree, c)

\* build has returned a tree with a branch below the root, built by two
\* workers and never cancelled.
C27_Witness ==
    /\ mpc = "check"
    /\ workers = 2
    /\ ~cancel
    /\ rootOut = root
    /\ isBranch(root)
    /\ \E i \in ChildIdx : isBranch(child(root, i))

(* ------------------------------------------------ C25: the tree the walk sees *)
\* The cells the walk can reach: every step down goes through a child slot
\* that holds a cell.
Reachable(c) ==
    \A k \in 1 .. Len(c) : c[k] \in tree[SubSeq(c, 1, k - 1)].children

\* The shape the mesher relies on: no UNKNOWN cell, a branch has all its
\* children and type AMBIGUOUS, a non-branch cell has a Leaf exactly when
\* its type is AMBIGUOUS.
WellFormed(c) ==
    /\ tree[c].type \in {EMPTY, FILLED, AMBIGUOUS}
    /\ isBranch(c) =>
          /\ tree[c].children = ChildIdx
          /\ tree[c].type = AMBIGUOUS
          /\ \A i \in ChildIdx : tree[child(c, i)].type # FREE
    /\ ~isBranch(c) => (tree[c].leaf <=> tree[c].type = AMBIGUOUS)

\* C25: when the meshing walk starts on the tree an uncancelled build
\* returned, no reachable cell is UNKNOWN, every branch has all 2^N children
\* and type AMBIGUOUS, and a non-branch cell has a Leaf iff it is AMBIGUOUS.
C25_WalkSeesBuiltTree ==
    mpc = "walk" => \A c \in Cells : Reachable(c) => WellFormed(c)

(* ------------------------------------------------ C26: one task per child *)
\* How many times cell c sits in the stack s.
Occurrences(s, c) == Cardinality({ k \in 1 .. Len(s) : s[k] = c })

RECURSIVE SumLocal(_, _)
SumLocal(c, n) == IF n = 0 THEN 0
                  ELSE Occurrences(local[n], c) + SumLocal(c, n - 1)

\* The copies of c waiting on the shared stack and on the local stacks.
Queued(c) == Occurrences(tasks, c) + SumLocal(c, MaxWorkers)

\* The cell was allocated by the subdivision of its parent: it is in the
\* tree, or it was merged away when its parent was collected.
Created(c) == tree[c].type # FREE \/ hist.collects[parent(c)] > 0

\* C26: when an AMBIGUOUS cell is subdivided every one of its 2^N children
\* becomes exactly one task, on the shared stack or on the pushing worker's
\* local stack, never on both and never on neither; a task is taken at most
\* once, and when build returns without cancel every child ever allocated
\* was taken and processed exactly once and no task is left.
C26_OneTaskPerChild ==
    /\ mpc = "build_join" =>
          /\ \A c \in Cells \ {root} :
                Queued(c) + hist.visits[c] = (IF Created(c) THEN 1 ELSE 0)
          /\ \A w \in Workers : pc[w] = "push" =>
                \A i \in ChildIdx : Created(child(cur[w], i)) <=> i < idx[w]
          /\ \A c \in Cells :
                (/\ tree[c].type = AMBIGUOUS /\ levelOf(c) > 0 /\ ~tree[c].leaf
                 /\ \A w \in Workers : ~(pc[w] = "push" /\ cur[w] = c))
                   => \A i \in ChildIdx : Created(child(c, i))
    /\ (mpc = "check" /\ ~cancel) =>
          \A c \in Cells \ {root} :
             /\ Queued(c) = 0
             /\ hist.visits[c] = (IF Created(c) THEN 1 ELSE 0)

\* One worker and a stack of capacity one: of every pair of children one
\* went to the shared stack and one to the local stack, and all were taken.
C26_Witness ==
    /\ mpc = "check" /\ ~cancel /\ workers = 1
    /\ \A c \in Cells \ {root} : hist.visits[c] = 1

(* ------------------------------------------------ C29: concurrent work calls *)
\* Cell a is cell b or one of its ancestors.
Prefix(a, b) == Len(a) <= Len(b) /\ SubSeq(b, 1, Len(a)) = a

\* The leaves Dual<N>::work(t, v) can hand to the mesher: the non-branch
\* cells below t.
LeavesUnder(t) ==
    { c \in Cells : Prefix(t, c) /\ tree[c].type # FREE /\ ~isBranch(c) }

\* The worker is inside the call Dual<N>::work(cur[w], v).
Working(w) == InWalk /\ pc[w] = "wwork"

\* C29: at any moment of the walk, the branch cells on which two workers
\* run Dual<N>::work are never the same cell and never ancestor and
\* descendant, so the leaves the two calls can touch are disjoint.
C29_DisjointWork ==
    \A w1, w2 \in Workers :
        (w1 # w2 /\ Working(w1) /\ Working(w2)) =>
            /\ isBranch(cur[w1]) /\ isBranch(cur[w2])
            /\ ~Prefix(cur[w1], cur[w2])
            /\ ~Prefix(cur[w2], cur[w1])
            /\ LeavesUnder(cur[w1]) \cap LeavesUnder(cur[w2]) = {}

\* Two workers run work at the same time, on the two children of the root.
C29_Witness ==
    /\ Working(1) /\ Working(2)
    /\ cur[1] = << 0 >> /\ cur[2] = << 1 >>

(* ------------------------------------------------ C28: one index per vertex *)
\* The vertex slots of the leaves: (leaf, vertex number).
Slots == LeafIds \X (0 .. (MaxVertexCount - 1))

\* The places of the per-thread breps where the slot was pushed.
Pushes(s) ==
    UNION { { << w, k >> : k \in { k \in 1 .. Len(breps[w].verts) :
                                     breps[w].verts[k] = s } } : w \in Meshers }

\* The slots that have an index, and the indices they have.
IndexedSlots == { s \in Slots : leafIndex[s[1]][s[2]] # 0 }
SlotIndices == { leafIndex[s[1]][s[2]] : s \in IndexedSlots }

\* The slots of a cell that load can pick.
SlotsOf(c) ==
    IF leafs[c].level > 0 THEN { << c, 0 >> }
    ELSE { << c, vi >> : vi \in 0 .. (leafs[c].vertex_count - 1) }

\* C28: over the whole walk and all threads every leaf vertex slot is
\* pushed to a per-thread brep at most once, the index it got then is the
\* one its leaf keeps, no two slots have the same index, and every index a
\* load call or a triangle uses is the index of a slot of the cell it stands
\* for.
C28_OneIndexPerSlot ==
    LET indexed == IndexedSlots
        indices == SlotIndices
    IN
    /\ \A s \in Slots :
          LET pushes == Pushes(s)
          IN  /\ Cardinality(pushes) <= 1
              /\ s \in indexed <=> pushes # {}
              /\ \A p \in pushes :
                    breps[p[1]].indices[p[2]] = leafIndex[s[1]][s[2]]
    /\ Cardinality(indices) = Cardinality(indexed)
    /\ \A w \in Meshers :
          /\ \A k \in 1 .. Len(ld[w].vs) :
                \E s \in SlotsOf(ld[w].ts[k]) :
                   s \in indexed /\ ld[w].vs[k] = leafIndex[s[1]][s[2]]
          /\ \A k \in 1 .. Len(breps[w].branes) :
                Range(breps[w].branes[k]) \subseteq indices

\* Two threads have each finished a load, on cells they share: the second
\* found the index the first had stored, and both made triangles with it.
C28_Witness ==
    /\ mesh.pc = "walk"
    /\ \A w \in 1 .. 2 : /\ ld[w].pc = "idle" /\ ld[w].calls = 1
                         /\ Len(ld[w].vs) = 4 /\ breps[w].branes # << >>
    /\ Range(ld[1].vs) \cap Range(ld[2].vs) # {}
    /\ Len(breps[2].verts) < 4

(* ------------------------------------------------ the steps enabled *)
En(b) == IF b THEN 1 ELSE 0

\* The steps the thread of Mesh::render can take now.
MainSteps ==
    En(ENABLED RenderStart) + En(ENABLED BuildEnter) + En(ENABLED BuildReturn)
    + En(ENABLED RenderCheck) + En(ENABLED WalkEnter) + En(ENABLED WalkReturn)
    + En(ENABLED RenderFinish)

\* The steps thread w can take now, in WorkerPool::run or in Dual::run.
WorkerSteps(w) ==
    En(ENABLED BTest(w)) + En(ENABLED BTakeNone(w)) + En(ENABLED BTake(w))
    + En(ENABLED BPush(w)) + En(ENABLED BUp(w)) + En(ENABLED BSetDone(w))
    + En(ENABLED BLock(w)) + En(ENABLED BClaim(w))
    + En(ENABLED WTest(w)) + En(ENABLED WTakeNone(w)) + En(ENABLED WTake(w))
    + En(ENABLED WPush(w)) + En(ENABLED WUp(w)) + En(ENABLED WWork(w))
    + En(ENABLED WSetDone(w))

RECURSIVE SumSteps(_)
SumSteps(n) == IF n = 0 THEN 0 ELSE WorkerSteps(n) + SumSteps(n - 1)

\* All the steps the program can take now.
EnabledSteps == MainSteps + SumSteps(MaxWorkers)

\* With one worker the scheduler has no choice: in every state at most one
\* step of one thread can be taken, none only once render has returned;
\* the shared stack holds at most one task and the next task is the top
\* of the local stack or else of the shared stack.
NoChoiceOfStep ==
    /\ EnabledSteps <= 1
    /\ EnabledSteps = 0 => mpc \in { "returned", "aborted" }
    /\ \A w \in AllWorkers \ Workers : WorkerSteps(w) = 0
    /\ Len(tasks) <= 1
    /\ \A w \in Workers :
          (pc[w] \in { "push", "wpush" } /\ idx[w] > 0) =>
              /\ Queued(child(cur[w], 0)) = 1
              /\ local[w] # << >> =>
                    Top(local[w]) = child(cur[w], idx[w] - 1)

(* ======================================================================
   The dual walk of an octree: Dual<3>::work and the recursion of face3
   and edge3.  A tree is the set br of its branch cells; a cell is the
   sequence of child numbers leading to it from the root.  The trees
   followed have the root, its children, and the children of any of them.
   ====================================================================== *)
\* The most children of the root that are branches at once.
MaxSplit == 8

Octants == 0 .. 7
OctRoot == << >>

\* The trees: a single leaf, or a branch root with any MaxSplit or fewer of
\* its children being branches of eight leaves.
OctTrees ==
    { {} } \cup
    { { OctRoot } \cup { << i >> : i \in s } :
        s \in { s \in SUBSET Octants : Cardinality(s) <= MaxSplit } }

\* t->isBranch()
isBranch3(br, t) == t \in br

\* t->child(i): child i of a branch, the cell itself for a leaf.
child3(br, t, i) == IF isBranch3(br, t) THEN Append(t, i) ELSE t

\* A call v.load<A>(ts).
LoadCall(A, ts) == << A, ts >>

\* edge3 with the two child quadruples taken from the same corners of all
\* four cells.
RECURSIVE edge3SameChild(_, _, _)
edge3SameChild(br, ts, A) ==
    IF \E k \in 1 .. 4 : isBranch3(br, ts[k])
    THEN edge3SameChild(br, << child3(br, ts[1], 0), child3(br, ts[2], 0),
                               child3(br, ts[3], 0), child3(br, ts[4], 0) >>, A)
         \o
         edge3SameChild(br, << child3(br, ts[1], A), child3(br, ts[2], A),
                               child3(br, ts[3], A), child3(br, ts[4], A) >>, A)
    ELSE << LoadCall(A, ts) >>

\* edge3<T, V, A>(ts, v): the calls of load it makes, in order.
RECURSIVE edge3(_, _, _)
edge3(br, ts, A) ==
    IF \E k \in 1 .. 4 : isBranch3(br, ts[k])
    THEN edge3(br, << child3(br, ts[1], BitOr(Q(A), R(A))),
                      child3(br, ts[2], R(A)),
                      child3(br, ts[3], Q(A)),
                      child3(br, ts[4], 0) >>, A)
         \o
         edge3(br, << child3(br, ts[1], BitOr(BitOr(Q(A), R(A)), A)),
                      child3(br, ts[2], BitOr(R(A), A)),
                      child3(br, ts[3], BitOr(Q(A), A)),
                      child3(br, ts[4], A) >>, A)
    ELSE << LoadCall(A, ts) >>

\* face3<T, V, A>(ts, v)
RECURSIVE face3(_, _, _)
face3(br, ts, A) ==
    IF \E k \in 1 .. 2 : isBranch3(br, ts[k])
    THEN LET q == Q(A)
             r == R(A)
             sub(k) == face3(br, << child3(br, ts[1], BitOr(k, A)),
                                    child3(br, ts[2], k) >>, A)
         IN  sub(0) \o sub(q) \o sub(r) \o sub(BitOr(q, r))
             \o edge3(br, << child3(br, ts[1], A),
                             child3(br, ts[1], BitOr(r, A)),
                             child3(br, ts[2], 0),
                             child3(br, ts[2], r) >>, q)
             \o edge3(br, << child3(br, ts[1], BitOr(q, A)),
                             child3(br, ts[1], BitOr(BitOr(q, r), A)),
                             child3(br, ts[2], q),
                             child3(br, ts[2], BitOr(q, r)) >>, q)
             \o edge3(br, << child3(br, ts[1], A),
                             child3(br, ts[2], 0),
                             child3(br, ts[1], BitOr(A, q)),
                             child3(br, ts[2], q) >>, r)
             \o edge3(br, << child3(br, ts[1], BitOr(r, A)),
                             child3(br, ts[2], r),
                             child3(br, ts[1], BitOr(BitOr(r, A), q)),
                             child3(br, ts[2], BitOr(r, q)) >>, r)
    ELSE << >>

\* call_edge3 with the cells along Q and along R exchanged.
call_edge3_swapped(br, t, A) ==
    LET one(a) == edge3(br, << child3(br, t, a),
                               child3(br, t, BitOr(R(A), a)),
                               child3(br, t, BitOr(Q(A), a)),
                               child3(br, t, BitOr(BitOr(Q(A), R(A)), a)) >>, A)
    IN  one(0) \o one(A)

\* call_edge3 with the loop over a stopped after a = 0.
call_edge3_low(br, t, A) ==
    edge3(br, << child3(br, t, 0), child3(br, t, Q(A)),
                 child3(br, t, R(A)), child3(br, t, BitOr(Q(A), R(A))) >>, A)

\* call_edge3<T, V, A>(t, v): for (auto a : {Axis::Axis(0), A})
call_edge3(br, t, A) ==
    LET one(a) == edge3(br, << child3(br, t, a),
                               child3(br, t, BitOr(Q(A), a)),
                               child3(br, t, BitOr(R(A), a)),
                               child3(br, t, BitOr(BitOr(Q(A), R(A)), a)) >>, A)
    IN  one(0) \o one(A)

\* call_face3<T, V, A>(t, v)
call_face3(br, t, A) ==
    LET q == Q(A)
        r == R(A)
    IN  face3(br, << child3(br, t, 0), child3(br, t, A) >>, A)
        \o face3(br, << child3(br, t, q), child3(br, t, BitOr(q, A)) >>, A)
        \o face3(br, << child3(br, t, r), child3(br, t, BitOr(r, A)) >>, A)
        \o face3(br, << child3(br, t, BitOr(q, r)),
                        child3(br, t, BitOr(BitOr(q, r), A)) >>, A)

\* Dual<3>::work(t, v)
work3(br, t) ==
    call_face3(br, t, X) \o call_face3(br, t, Y) \o call_face3(br, t, Z)
    \o call_edge3(br, t, X) \o call_edge3(br, t, Y) \o call_edge3(br, t, Z)

(* ------------------------------------------------ Dual<3>::run *)
\* The most threads of a walk, and the most branch children of the root in
\* a walk by more than one thread.
MaxThreads == 2
MaxSharedSplit == 1

\* No loop over t->children is under way.
NoPush == << >>

\* Dual::walk_ up to the launch of the threads: the shared stack holds the
\* root, every pending counter is reset, every thread has an empty local
\* stack and a mesher of its own.  hold[w] is the cell thread w is walking
\* up from, worked[w] the cells it has run work on.
NewWalk(br, n) ==
    [workers |-> n,
     tasks |-> << OctRoot >>,
     local |-> [w \in 1 .. n |-> << >>],
     at |-> [w \in 1 .. n |-> NoPush],
     hold |-> [w \in 1 .. n |-> << >>],
     pending |-> [t \in br |-> Cardinality(Octants) - 1],
     worked |-> [w \in 1 .. n |-> << >>],
     done |-> FALSE]

\* One test of the loop for (t = t->parent; t && t->pending-- == 0;
\* t = t->parent) work(t, v) by the thread that holds cell t: the decrement
\* of the parent's counter and, when it found 0, the work on the parent,
\* which writes to the thread's own mesher only.  At the root the parent
\* is null: the break, then done.store(true).
up3(st, w) ==
    LET t == st.hold[w][1]
    IN  IF t = OctRoot
        THEN [st EXCEPT !.hold[w] = << >>, !.done = TRUE]
        ELSE LET p == SubSeq(t, 1, Len(t) - 1)
                 s == [st EXCEPT !.pending[p] = @ - 1]
             IN  IF WalkLast(st.pending[p])
                 THEN [s EXCEPT !.worked[w] = Append(@, p),
                                !.hold[w] = << p >>]
                 ELSE [s EXCEPT !.hold[w] = << >>]

\* The thread is at the top of the loop with a task to take: its local
\* stack or the shared one holds a cell.
CanTake3(st, w) ==
    /\ ~st.done
    /\ st.at[w] = NoPush
    /\ st.hold[w] = << >>
    /\ st.local[w] # << >> \/ st.tasks # << >>

\* The top of a turn of the loop of Dual::run that finds a task: the local
\* stack first, its last cell first, else tasks.pop(t); a branch starts
\* the loop over its children, a leaf the walk up.
take3(br, st, w) ==
    LET fromLocal == st.local[w] # << >>
        t == IF fromLocal THEN Top(st.local[w]) ELSE Top(st.tasks)
        s == IF fromLocal THEN [st EXCEPT !.local[w] = Pop(@)]
                          ELSE [st EXCEPT !.tasks = Pop(@)]
    IN  IF isBranch3(br, t) THEN [s EXCEPT !.at[w] = << t, 0 >>]
        ELSE IF isSingleton(t) THEN s
        ELSE [s EXCEPT !.hold[w] = << t >>]

\* One turn of the loop over t->children: bounded_push on the shared stack
\* of settings.workers places, the local stack when it is full.
push3(st, w) ==
    LET t == st.at[w][1]
        i == st.at[w][2]
        c == Append(t, i)
        s == IF Len(st.tasks) < st.workers
             THEN [st EXCEPT !.tasks = Append(@, c)]
             ELSE [st EXCEPT !.local[w] = Append(@, c)]
    IN  [s EXCEPT !.at[w] = IF i + 1 = Cardinality(Octants) THEN NoPush
                            ELSE << t, i + 1 >>]

\* The load calls of the cells a thread has worked on, in order.
RECURSIVE callsOf(_, _, _)
callsOf(br, cells, n) ==
    IF n = 0 THEN << >>
    ELSE callsOf(br, cells, n - 1) \o work3(br, cells[n])

\* The calls of all the threads, thread after thread.
RECURSIVE callsUpTo(_, _, _)
callsUpTo(br, st, w) ==
    IF w = 0 THEN << >>
    ELSE callsUpTo(br, st, w - 1)
         \o callsOf(br, st.worked[w], Len(st.worked[w]))

\* A tree and the threads about to walk it.
WalkInit ==
    /\ RenderIdle
    /\ MeshIdle
    /\ \E br \in OctTrees, n \in 1 .. MaxThreads :
          /\ n > 1 => Cardinality(br) <= 1 + MaxSharedSplit
          /\ fn = [op |-> "walk", arg |-> << br, NewWalk(br, n) >>,
                   ret |-> << >>]

WalkTake(w) ==
    /\ fn.op = "walk"
    /\ w \in 1 .. fn.arg[2].workers
    /\ CanTake3(fn.arg[2], w)
    /\ fn' = [fn EXCEPT !.arg[2] = take3(fn.arg[1], fn.arg[2], w)]
    /\ UNCHANGED << renderVars, meshVars >>

WalkPush(w) ==
    /\ fn.op = "walk"
    /\ w \in 1 .. fn.arg[2].workers
    /\ fn.arg[2].at[w] # NoPush
    /\ fn' = [fn EXCEPT !.arg[2] = push3(fn.arg[2], w)]
    /\ UNCHANGED << renderVars, meshVars >>

WalkUp(w) ==
    /\ fn.op = "walk"
    /\ w \in 1 .. fn.arg[2].workers
    /\ fn.arg[2].hold[w] # << >>
    /\ fn' = [fn EXCEPT !.arg[2] = up3(fn.arg[2], w)]
    /\ UNCHANGED << renderVars, meshVars >>

\* f.get() on every future: the walk is over, the calls are those of the
\* meshers of the threads.
WalkJoin ==
    /\ fn.op = "walk"
    /\ fn.arg[2].done
    /\ \A w \in 1 .. fn.arg[2].workers :
          fn.arg[2].at[w] = NoPush /\ fn.arg[2].hold[w] = << >>
    /\ fn.ret = << >>
    /\ fn' = [fn EXCEPT !.ret = << callsUpTo(fn.arg[1], fn.arg[2],
                                              fn.arg[2].workers) >>]
    /\ UNCHANGED << renderVars, meshVars >>

WalkNext ==
    \/ \E w \in 1 .. MaxThreads : WalkTake(w) \/ WalkPush(w) \/ WalkUp(w)
    \/ WalkJoin

WalkSpec == WalkInit /\ [][WalkNext]_vars

(* ------------------------------------------------ C30: every dual edge once *)
\* The unit cell at place a along axis A and at qv, rv along Q(A), R(A), in
\* the grid of the smallest cells (four along each axis).
Place(A, a, qv, rv) ==
    [ax \in Axes |-> IF ax = A THEN a ELSE IF ax = Q(A) THEN qv ELSE rv]

\* The non-branch cell of the tree that covers the unit cell p: bit A of a
\* child number is the upper half along axis A.
LeafAt(br, p) ==
    LET i1 == (p[X] \div 2) * X + (p[Y] \div 2) * Y + (p[Z] \div 2) * Z
        i2 == (p[X] % 2) * X + (p[Y] % 2) * Y + (p[Z] % 2) * Z
    IN  IF ~isBranch3(br, OctRoot) THEN OctRoot
        ELSE IF isBranch3(br, << i1 >>) THEN << i1, i2 >>
        ELSE << i1 >>

\* The four non-branch cells around the unit segment of the grid line
\* (q, r) along A at place a, low Q and low R first.
Around4(br, A, a, q, r) ==
    << LeafAt(br, Place(A, a, q - 1, r - 1)), LeafAt(br, Place(A, a, q, r - 1)),
       LeafAt(br, Place(A, a, q - 1, r)),     LeafAt(br, Place(A, a, q, r)) >>

\* The segment is an edge of one of the cells around it: it is not inside a
\* cell and not inside the face between two cells.
OnTreeEdge(ts) ==
    /\ ~(ts[1] = ts[2] /\ ts[3] = ts[4])
    /\ ~(ts[1] = ts[3] /\ ts[2] = ts[4])

\* The minimal dual edges of the tree: the 4-tuples of non-branch cells that
\* meet at an interior edge of the tree, one for each edge of the smallest
\* cell of the tuple.
MinimalEdges(br) ==
    { e \in { LoadCall(A, Around4(br, A, a, q, r)) :
                 A \in Axes, a \in 0 .. 3, q \in 1 .. 3, r \in 1 .. 3 } :
        OnTreeEdge(e[2]) }

\* C30: for every finished octree the dual walk (work on every branch
\* cell) passes every minimal dual edge to mesher.load exactly once, and
\* passes nothing else.
C30_EveryDualEdgeOnce ==
    (fn.op = "walk" /\ fn.ret # << >>) =>
        LET calls == fn.ret[1]
            edges == MinimalEdges(fn.arg[1])
        IN  /\ Range(calls) = edges
            /\ Len(calls) = Cardinality(edges)

\* An adaptive tree was walked: some call has four different cells of two
\* sizes, and some call has the same large cell twice.
C30_Witness ==
    /\ fn.op = "walk" /\ fn.ret # << >>
    /\ isBranch3(fn.arg[1], << 0 >>) /\ ~isBranch3(fn.arg[1], << 7 >>)
    /\ \E k \in 1 .. Len(fn.ret[1]) :
          LET ts == fn.ret[1][k][2]
          IN  Cardinality(Range(ts)) = 4 /\ { Len(ts[j]) : j \in 1 .. 4 } = { 1, 2 }
    /\ \E k \in 1 .. Len(fn.ret[1]) :
          LET ts == fn.ret[1][k][2]
          IN  Cardinality(Range(ts)) = 3 /\ \E j \in 1 .. 4 : Len(ts[j]) = 1

(* ======================================================================
   The mesh of a whole octree: the dual walk above with DCMesher::load on
   every call, for a field of corner signs on the grid of the smallest
   cells (five points along each axis).  The region's boundary is EMPTY;
   the shape is the set of FILLED interior points.
   ====================================================================== *)
\* The most grid points inside the shape, and the highest coordinate of
\* such a point: the shapes lie in the lowest child of the root, up to the
\* centre of the region.
MaxFilled == 2
MaxCoordinate == 2

\* The most children of the root that the build splits although it could
\* have collapsed them.
MaxOptionalSplit == 1

\* The most calls of a walk that compare normals of which the outcome
\* depends on the positions of the vertices.
MaxCompared == 7

\* The grid points strictly inside the region, numbered 0 to 26.
InteriorPoint(i) == << 1 + PtX(i), 1 + PtY(i), 1 + PtZ(i) >>

\* The shapes: at most MaxFilled interior points, at least one, none
\* beyond MaxCoordinate along any axis.
Shapes ==
    LET inside == { i \in Points :
                      \A d \in 1 .. 3 : InteriorPoint(i)[d] <= MaxCoordinate }
    IN  UNION { { { InteriorPoint(f[k]) : k \in 1 .. n } :
                    f \in { f \in [1 .. n -> inside] :
                               \A k \in 1 .. (n - 1) : f[k] < f[k + 1] } } :
                n \in 1 .. MaxFilled }

\* The lowest corner of a cell on the grid, and the length of its edge.
CellOrigin(t) ==
    IF Len(t) = 0 THEN << 0, 0, 0 >>
    ELSE IF Len(t) = 1
    THEN << 2 * BitX(t[1]), 2 * BitY(t[1]), 2 * BitZ(t[1]) >>
    ELSE << 2 * BitX(t[1]) + BitX(t[2]), 2 * BitY(t[1]) + BitY(t[2]),
            2 * BitZ(t[1]) + BitZ(t[2]) >>

CellSize(t) == IF Len(t) = 0 THEN 4 ELSE IF Len(t) = 1 THEN 2 ELSE 1

\* The grid point of corner k of cell t.
CornerAt(t, k) ==
    LET o == CellOrigin(t)
        s == CellSize(t)
    IN  << o[1] + s * BitX(k), o[2] + s * BitY(k), o[3] + s * BitZ(k) >>

\* The corner mask of a cell: bit k is set when corner k is inside.
MaskOf(shape, t) ==
    CornerMask([k \in CornerIds |-> State(CornerAt(t, k) \in shape)])

\* The signs at the 27 points of the children of cell t.
SubField(shape, t) ==
    LET o == CellOrigin(t)
        h == CellSize(t) \div 2
    IN  [p \in Points |->
            << o[1] + h * PtX(p), o[2] + h * PtY(p), o[3] + h * PtZ(p) >>
               \in shape]

\* What the build makes of a non-branch cell: a cell of the smallest size
\* by its corners (evalLeaf), a larger one by collectChildren.
LeafType(shape, t) ==
    IF CellSize(t) = 1
    THEN LET mask == MaskOf(shape, t)
         IN  IF mask = 0 THEN EMPTY
             ELSE IF mask = NumMasks - 1 THEN FILLED ELSE AMBIGUOUS
    ELSE LET kind == collectChildren(SubField(shape, t), TRUE)
         IN  IF kind = "leaf" THEN AMBIGUOUS ELSE kind

(* ------------------------------------------------ the patches of a cell *)
\* MarchingTable<3> gives every edge of a cell that changes sign one of
\* the patches of the cell's corner mask.  Two tables are followed: the
\* edges grouped by their FILLED end, and by their EMPTY end.
Tables == { "filled", "empty" }

\* Corners c and d are the ends of an edge of the cell.
Adjacent(c, d) == c # d /\ \E A \in Axes : BitOr(c, A) = d \/ BitOr(d, A) = c

\* The corners the table groups: the FILLED ones, or the EMPTY ones.
Side(table, mask) ==
    { c \in CornerIds : Bit(mask, c) = (table = "filled") }

\* The corners of S joined to corner c by edges between corners of S.
Joined(S, c) ==
    LET RECURSIVE grow(_)
        grow(T) ==
            LET more == T \cup { d \in S : \E e \in T : Adjacent(d, e) }
            IN  IF more = T THEN T ELSE grow(more)
    IN  grow({ c })

Lowest(S) == CHOOSE c \in S : \A d \in S : c <= d

\* The patches of a corner mask, each named by its lowest corner.
Patches(table, mask) ==
    { Lowest(Joined(Side(table, mask), c)) : c \in Side(table, mask) }

\* MarchingTable<3>::p(mask)[e] for the edge e from a FILLED corner to an
\* EMPTY one: the number of its patch, from 0.
Patch(table, mask, e) ==
    LET S == Side(table, mask)
        c == IF table = "filled" THEN e[1] ELSE e[2]
    IN  Cardinality({ q \in Patches(table, mask) : q < Lowest(Joined(S, c)) })

\* The leaf of a non-branch cell: one vertex for a collapsed cell, one for
\* each patch of its corner mask for a cell of the smallest size.
LeafOf(shape, t, table) ==
    LET type == LeafType(shape, t)
        mask == MaskOf(shape, t)
    IN  IF type = AMBIGUOUS
        THEN [type |-> AMBIGUOUS, level |-> IF CellSize(t) = 1 THEN 0 ELSE 1,
              corner_mask |-> mask,
              vertex_count |-> IF CellSize(t) = 1
                               THEN Cardinality(Patches(table, mask)) ELSE 1]
        ELSE NoLeaf(type)

\* The trees the build can return for the shape: a child of the root is
\* a branch when collectChildren leaves it one, a leaf when its children
\* are all EMPTY or all FILLED, and either when only the error of the
\* fused QEF decides (at most MaxOptionalSplit of these are branches).
BuiltTrees(shape) ==
    LET kind == [i \in Octants |->
                    collectChildren(SubField(shape, << i >>), TRUE)]
        must == { i \in Octants : kind[i] = "branch" }
        may == { i \in Octants : kind[i] = "leaf" }
    IN  { { OctRoot } \cup { << i >> : i \in must \cup s } :
            s \in { s \in SUBSET may : Cardinality(s) <= MaxOptionalSplit } }

\* The non-branch cells of the tree, each with its leaf.
Leafs3(shape, br, table) ==
    [t \in { << i >> : i \in { i \in Octants : ~isBranch3(br, << i >>) } }
            \cup { << i, j >> : i \in { i \in Octants : isBranch3(br, << i >>) },
                                j \in Octants }
        |-> LeafOf(shape, t, table)]

(* ------------------------------------------------ the mesh of a tree *)
\* No call has compared its normals yet.
NoneCompared == [seen |-> { }, first |-> { }]

\* norms[0].dot(norms[3]) > norms[1].dot(norms[2]) in a call with the
\* quad vs: what it can come out as.  It depends on the positions of the
\* four vertices, which belong to the leaves: it is false when both
\* products are 0, what cmp holds for the call when the call was made on
\* these leaves before, and either otherwise.
Compared(cmp, call, vs) ==
    IF BothZero(vs) THEN { FALSE }
    ELSE IF call \in cmp.seen THEN { call \in cmp.first }
    ELSE BOOLEAN

\* cmp once the call has compared its normals of the quad vs and found
\* first.
Remembered(cmp, call, vs, first) ==
    IF BothZero(vs) THEN cmp
    ELSE [seen |-> cmp.seen \cup { call },
          first |-> IF first THEN cmp.first \cup { call } ELSE cmp.first]

\* ev: the two corners of the edge in each of the four cells.
evOf(A) ==
    << << BitOr(Q(A), R(A)), BitOr(BitOr(Q(A), R(A)), A) >>,
       << R(A), BitOr(R(A), A) >>,
       << Q(A), BitOr(Q(A), A) >>,
       << 0, A >> >>

\* es[i]: the edge of cell i, from ev[i].first to ev[i].second when D and
\* the other way otherwise.
es(A, D, i) ==
    IF D = 1 THEN evOf(A)[i + 1]
    ELSE << evOf(A)[i + 1][2], evOf(A)[i + 1][1] >>

\* load<A>(ts) followed by load<A, D>(ts) by a mesher, as far as the
\* normals: m holds the index of every leaf, the counter and the brep of
\* the mesher; vs is the quad in its winding, << >> when the call has
\* returned before it.
load3(table, m, call) ==
    LET A == call[1]
        ts == call[2]
        back == [index |-> m.index, counter |-> m.counter, brep |-> m.brep,
                 vs |-> << >>]
    IN  IF AnyNotAmbiguous(ts) THEN back
        ELSE LET index == MinLevelIndex(ts)
                 at == Authority(index)
                 a == cornerState(Cell(ts, at), corners(A)[at + 1])
                 b == cornerState(Cell(ts, at), BitOr(corners(A)[at + 1], A))
                 D == Polarity(a)
                 RECURSIVE turns(_)
                 turns(n) ==
                     IF n = 0
                     THEN [index |-> m.index, counter |-> m.counter,
                           brep |-> m.brep, vs |-> << >>]
                     ELSE LET s == turns(n - 1)
                              c == ts[n]
                              vi == IF leafs[c].level > 0 THEN 0
                                    ELSE Patch(table, leafs[c].corner_mask,
                                               es(A, D, n - 1))
                              fresh == s.index[c][vi] = 0
                              pushed == pushVertex(s.brep, s.counter,
                                                   << c, vi >>)
                              ix == IF fresh THEN pushed.out
                                    ELSE s.index[c][vi]
                          IN  [index |-> [s.index EXCEPT ![c][vi] = ix],
                               counter |-> IF fresh THEN pushed.counter
                                           ELSE s.counter,
                               brep |-> IF fresh THEN pushed.brep ELSE s.brep,
                               vs |-> Append(s.vs, ix)]
             IN  IF a = b THEN back
                 ELSE [turns(4) EXCEPT !.vs = Wind(@, D)]

\* The end of load<A, D>: the two triangles of the quad vs, by the
\* comparison of the normals, but for those that are lines.
push_triangles(brep, vs, first) ==
    IF vs = << >> THEN brep
    ELSE [brep EXCEPT !.branes = @ \o SelectSeq(Candidates(vs, first), Keeps)]

\* The calls of the walk of the tree that compare normals which are not
\* (0, 0, 0) in both products.
ComparingCalls(br) ==
    { call \in MinimalEdges(br) :
        /\ ~AnyNotAmbiguous(call[2])
        /\ ~BothZero(call[2])
        /\ LET at == Authority(MinLevelIndex(call[2]))
               c == corners(call[1])[at + 1]
           IN  cornerState(Cell(call[2], at), c)
                  # cornerState(Cell(call[2], at), BitOr(c, call[1])) }

\* The threads Dual::walk_ launches: for (i < settings.workers).
Threads == Cardinality(Workers)

\* No leaf has an index yet.
NoIndex(lf) ==
    [t \in DOMAIN lf |-> [vi \in 0 .. (lf[t].vertex_count - 1) |-> 0]]

\* Two calls of Mesh::render that build the same tree, one after the
\* other, each from its walk on: fn.arg holds the tree, the table, what
\* the comparison of the normals was in every call that has made it, the
\* walk under way and the load calls each thread has still to make in the
\* work it is in; fn.ret.log holds the cells taken and worked on, in
\* order, fn.ret.first what the first walk left once it is over.
NewWalks(br, table) ==
    [op |-> "mesh",
     arg |-> [br |-> br, table |-> table, cmp |-> NoneCompared,
              st |-> NewWalk(br, Threads),
              todo |-> [w \in 1 .. Threads |-> << >>]],
     ret |-> [log |-> << >>, first |-> << >>]]

\* Some cell has several vertices with one of the tables.
HasPatches(lfs) ==
    \E table \in Tables : \E t \in DOMAIN lfs[table] :
        lfs[table][t].vertex_count > 1

\* A finished tree with its leaves and the threads about to walk it, for
\* every shape, every tree the build can return for it, and each table
\* (one table where no cell of the tree has several vertices), in which
\* at most MaxCompared calls compare normals.
MeshRunInit ==
    /\ RenderIdle
    /\ \E shape \in Shapes : \E br \in BuiltTrees(shape) :
          \E lfs \in { [table \in Tables |-> Leafs3(shape, br, table)] } :
             \E table \in Tables :
                /\ HasPatches(lfs) \/ table = "filled"
                /\ leafs = lfs[table]
                /\ Cardinality(ComparingCalls(br)) <= MaxCompared
                /\ fn = NewWalks(br, table)
    /\ leafIndex = NoIndex(leafs)
    /\ counter = 1
    /\ breps = [w \in 1 .. Threads |-> EmptyBRep]
    /\ ld = [w \in 1 .. Threads |-> IdleLoad(0)]
    /\ mesh = NewMesh({ 0 })

\* Dual::run, lines 355-374: the thread takes a task.
MeshTake(w) ==
    /\ fn.op = "mesh"
    /\ w \in 1 .. fn.arg.st.workers
    /\ mesh.pc = "walk"
    /\ CanTake3(fn.arg.st, w)
    /\ LET s == take3(fn.arg.br, fn.arg.st, w)
           t == IF s.at[w] # NoPush THEN s.at[w][1] ELSE s.hold[w][1]
       IN  fn' = [fn EXCEPT !.arg.st = s,
                            !.ret.log = Append(@, << "walk", t >>)]
    /\ UNCHANGED << renderVars, meshVars >>

\* Lines 379-386: one turn of the loop over t->children.
MeshPush(w) ==
    /\ fn.op = "mesh"
    /\ w \in 1 .. fn.arg.st.workers
    /\ fn.arg.st.at[w] # NoPush
    /\ fn' = [fn EXCEPT !.arg.st = push3(fn.arg.st, w)]
    /\ UNCHANGED << renderVars, meshVars >>

\* Lines 399-408: one test of the loop that walks up from a cell; when the
\* parent's counter was at 0 the thread starts work(t, v) on the parent.
MeshUp(w) ==
    /\ fn.op = "mesh"
    /\ w \in 1 .. fn.arg.st.workers
    /\ fn.arg.st.hold[w] # << >>
    /\ fn.arg.todo[w] = << >>
    /\ LET s == up3(fn.arg.st, w)
           works == Len(s.worked[w]) > Len(fn.arg.st.worked[w])
           t == Top(s.worked[w])
       IN  fn' = IF works
                 THEN [fn EXCEPT !.arg.st = s,
                                 !.arg.todo[w] = work3(fn.arg.br, t),
                                 !.ret.log = Append(@, << "work", t >>)]
                 ELSE [fn EXCEPT !.arg.st = s]
    /\ UNCHANGED << renderVars, meshVars >>

\* One call v.load<A>(ts) of the work the thread is in, on its own
\* mesher.  When it compares the normals of its quad, the outcome is what
\* the positions of the vertices make it: the same in this call whenever
\* the call is made.
MeshLoad(w) ==
    /\ fn.op = "mesh"
    /\ w \in 1 .. fn.arg.st.workers
    /\ fn.arg.todo[w] # << >>
    /\ \E call \in { Head(fn.arg.todo[w]) } :
          \E m \in { load3(fn.arg.table,
                           [index |-> leafIndex, counter |-> counter,
                            brep |-> breps[w]], call) } :
             /\ leafIndex' = m.index
             /\ counter' = m.counter
             /\ IF m.vs = << >>
                THEN /\ breps' = [breps EXCEPT ![w] = m.brep]
                     /\ fn' = [fn EXCEPT !.arg.todo[w] = Tail(@)]
                ELSE \E first \in Compared(fn.arg.cmp, call, m.vs) :
                        /\ breps' = [breps EXCEPT ![w] =
                                        push_triangles(m.brep, m.vs, first)]
                        /\ fn' = [fn EXCEPT
                                    !.arg.todo[w] = Tail(@),
                                    !.arg.cmp = Remembered(@, call, m.vs,
                                                           first)]
    /\ UNCHANGED << renderVars, leafs, ld, mesh >>

\* Every thread has left Dual::run: f.get() returns for every future.
MeshWalked ==
    /\ fn.arg.st.done
    /\ \A w \in 1 .. fn.arg.st.workers :
          /\ fn.arg.st.at[w] = NoPush
          /\ fn.arg.st.hold[w] = << >>
          /\ fn.arg.todo[w] = << >>

\* Lines 318-333: out->collect(breps) once the threads are joined.
MeshCollect ==
    /\ fn.op = "mesh"
    /\ MeshWalked
    /\ CollectEnter

\* The second call of Mesh::render, after the first has returned, from
\* its walk on: the build has made the tree anew, the same tree with the
\* same leaves, none of which has an index yet; the counter is at 1, the
\* BRep and the breps are new.  (A second walk of the same tree object
\* would find the indices of the first in the leaves; that is not followed
\* here.)
MeshAgain ==
    /\ fn.op = "mesh"
    /\ fn.ret.first = << >>
    /\ mesh.pc = "done"
    /\ fn' = [fn EXCEPT !.arg.st = NewWalk(fn.arg.br, Threads),
                        !.ret = [log |-> << >>,
                                 first |-> << fn.ret.log, breps, mesh,
                                              leafIndex >>]]
    /\ leafIndex' = NoIndex(leafs)
    /\ counter' = 1
    /\ breps' = [w \in 1 .. Threads |-> EmptyBRep]
    /\ mesh' = NewMesh({ 0 })
    /\ UNCHANGED << renderVars, leafs, ld >>

\* A call of Mesh::render with one worker, on any input.
RenderRunInit ==
    /\ RenderInit
    /\ workers = 1
    /\ MeshIdle
    /\ fn = NewRuns

\* The second call of Mesh::render with the same settings, after the first
\* has returned: everything is as at the first call, and the input says
\* for every cell what it said in the first run.
RenderAgain ==
    /\ Following
    /\ fn.ret.first = << >>
    /\ mpc = "returned"
    /\ fn' = [fn EXCEPT !.ret = [log |-> << >>,
                                 first |-> << fn.ret.log, result, progress,
                                              hist >>]]
    /\ ndebug' = FALSE
    /\ cancel' = FALSE
    /\ mpc' = "render"
    /\ result' = "none"
    /\ rootOut' = NULL
    /\ tree' = [c \in Cells |-> FreeCell]
    /\ tasks' = << >>
    /\ local' = [w \in AllWorkers |-> << >>]
    /\ done' = FALSE
    /\ pc' = [w \in AllWorkers |-> "idle"]
    /\ cur' = [w \in AllWorkers |-> NULL]
    /\ idx' = [w \in AllWorkers |-> 0]
    /\ root_lock' = 0
    /\ claimed' = [w \in AllWorkers |-> 0]
    /\ progress' = [started |-> 0, finished |-> 0, total |-> 0, counter |-> 0]
    /\ hist' = EmptyHist
    /\ UNCHANGED << settingsVars, meshVars >>

TwoRunsInit == RenderRunInit \/ MeshRunInit

TwoRunsNext ==
    \/ Following /\ NextNoCancel
    \/ RenderAgain
    \/ \E w \in 1 .. MaxWorkers :
          MeshTake(w) \/ MeshPush(w) \/ MeshUp(w) \/ MeshLoad(w)
    \/ MeshCollect
    \/ \E i \in 0 .. (MaxCollectWorkers - 1) : CollectVertex(i)
    \/ \E i \in 0 .. (MaxCollectWorkers - 1) : CollectChild(i)
    \/ CollectReturn
    \/ MeshAgain

\* Two calls of Mesh::render with settings.workers = 1 on the same input,
\* one after the other: their builds on the cells of a tree, the
\* evaluator's results being the input; and their meshing walks and
\* collect on the finished octree the build has made, with its leaves.
TwoRunsSpec == TwoRunsInit /\ [][TwoRunsNext]_vars

(* ------------------------------------------------ C22: one worker, one run *)
\* The second run has come as far as the first, with the same tasks in the
\* same order.
SameTasks == Prefix(fn.ret.log, fn.ret.first[1])

\* The second call of Mesh::render has returned what the first returned,
\* after the same tasks.
SameRender ==
    (Following /\ fn.ret.first # << >>) =>
        /\ SameTasks
        /\ mpc # "aborted"
        /\ mpc = "returned" =>
              << fn.ret.log, result, progress, hist >> = fn.ret.first

\* The second walk has left the mesh the first left: the same vertices
\* with the same indices in the brep of the thread, the same triangles in
\* the same order, the same index in every leaf, and the same BRep after
\* collect.
SameMesh ==
    (fn.op = "mesh" /\ fn.ret.first # << >>) =>
        /\ SameTasks
        /\ \A w \in DOMAIN breps :
              /\ Prefix(breps[w].verts, fn.ret.first[2][w].verts)
              /\ Prefix(breps[w].indices, fn.ret.first[2][w].indices)
              /\ Prefix(breps[w].branes, fn.ret.first[2][w].branes)
        /\ mesh.pc \notin { "aborted" }
        /\ mesh.pc = "done" =>
              << fn.ret.log, breps, mesh, leafIndex >> = fn.ret.first

\* C22: with workers = 1, two runs of build followed by the meshing walk on
\* the same input pass through the same sequence of tasks and give the
\* same mesh: the same vertices in the same order with the same indices,
\* the same triangles in the same order.  In every state of either run at
\* most one step of one thread can be taken, the next task being the top
\* of the local stack or else of the shared stack; what the evaluator and
\* collectChildren make of a cell, and what the comparison of the normals
\* of a quad comes out as, is the input, the same in both runs.
C22_SameRunTwice ==
    workers = 1 =>
        /\ Following => NoChoiceOfStep
        /\ SameRender
        /\ SameMesh

\* The second walk of an adaptive tree is over: its mesh has triangles that
\* join a collapsed leaf to cells of the smallest size, and a cell with two
\* vertices, both with an index.
C22_Witness ==
    /\ workers = 1
    /\ fn.op = "mesh" /\ fn.ret.first # << >>
    /\ mesh.pc = "done"
    /\ Cardinality(DOMAIN mesh.branes) >= 4
    /\ \E t \in DOMAIN leafs :
          /\ leafs[t].vertex_count = 2
          /\ leafIndex[t][0] # 0 /\ leafIndex[t][1] # 0
    /\ \E k \in DOMAIN breps[1].branes :
          LET tri == breps[1].branes[k]
              cell(j) == breps[1].verts[CHOOSE n \in DOMAIN breps[1].indices :
                                          breps[1].indices[n] = tri[j]][1]
          IN  { Len(cell(j)) : j \in 1 .. 3 } = { 1, 2 }

(* ------------------------------------------------ C31: the cells of a load call *)
\* The place of axis A in a grid point.
AxisIndex(A) == IF A = X THEN 1 ELSE IF A = Y THEN 2 ELSE 3

\* The end of the edge of cell ts[i + 1] that load<A> reads first: its
\* corner {Q|R, R, Q, 0}[i].
EdgeStart(A, ts, i) == CornerAt(ts[i + 1], corners(A)[i + 1])

\* The other end: the corner {Q|R, R, Q, 0}[i] | A.
EdgeEnd(A, ts, i) == CornerAt(ts[i + 1], BitOr(corners(A)[i + 1], A))

\* The four cells of a call touch one grid line along A at those corners,
\* and the edge of the smallest of them lies within the edge of each.
SharesEdge(br, call) ==
    LET A == call[1]
        ts == call[2]
        a == AxisIndex(A)
        q == AxisIndex(Q(A))
        r == AxisIndex(R(A))
        lo == [i \in 0 .. 3 |-> EdgeStart(A, ts, i)[a]]
        hi == [i \in 0 .. 3 |-> EdgeEnd(A, ts, i)[a]]
    IN  /\ \A i \in 0 .. 3 : ~isBranch3(br, ts[i + 1])
        /\ \A i \in 0 .. 3 :
              /\ EdgeStart(A, ts, i)[q] = EdgeStart(A, ts, 0)[q]
              /\ EdgeStart(A, ts, i)[r] = EdgeStart(A, ts, 0)[r]
              /\ EdgeEnd(A, ts, i)[q] = EdgeStart(A, ts, 0)[q]
              /\ EdgeEnd(A, ts, i)[r] = EdgeStart(A, ts, 0)[r]
              /\ lo[i] < hi[i]
        /\ \E m \in 0 .. 3 : \A i \in 0 .. 3 : lo[i] <= lo[m] /\ hi[m] <= hi[i]

\* C31: edge3<A> calls load<A> only on four cells none of which is a
\* branch (it recurses otherwise, into the two child quadruples along A,
\* until that is so); in every load<A> call of the walk the four cells share
\* an edge segment along A and are in quadrant order: cell i touches the
\* segment at its corners {Q|R, R, Q, 0}[i] and {Q|R, R, Q, 0}[i] | A.
C31_LoadCellsShareEdge ==
    (fn.op = "walk" /\ fn.ret # << >>) =>
        /\ \A k \in 1 .. Len(fn.ret[1]) : SharesEdge(fn.arg[1], fn.ret[1][k])
        /\ \A A \in Axes, i \in Octants :
              LET ts == << << i >>, << i >>, << i >>, << i >> >>
              IN  Len(edge3(fn.arg[1], ts, A)) = 1 <=> ~isBranch3(fn.arg[1], << i >>)

\* The index of the first smallest cell of a call, as std::min_element on
\* the leaf levels finds it.
SmallestIndex(ts) ==
    CHOOSE m \in 0 .. 3 :
        /\ \A i \in 0 .. 3 : CellSize(ts[m + 1]) <= CellSize(ts[i + 1])
        /\ \A i \in 0 .. m - 1 : CellSize(ts[i + 1]) > CellSize(ts[m + 1])

\* Cell t covers the unit cube whose lowest corner is o.
Covers(t, o) ==
    \A d \in 1 .. 3 :
        CellOrigin(t)[d] <= o[d] /\ o[d] < CellOrigin(t)[d] + CellSize(t)

\* The lowest corner of the unit cube that lies next to grid point p in
\* quadrant i around the line through p along A.
QuadrantCube(A, p, i) ==
    [d \in 1 .. 3 |->
        IF d = AxisIndex(Q(A)) THEN p[d] - (IF i \in {0, 2} THEN 1 ELSE 0)
        ELSE IF d = AxisIndex(R(A)) THEN p[d] - (IF i \in {0, 1} THEN 1 ELSE 0)
        ELSE p[d]]

\* The four cells of a call lie around the edge of the smallest of them,
\* in quadrant order; a larger cell may hold that edge within a face, and
\* then fills two quadrants.
AroundEdge(br, call) ==
    LET A == call[1]
        ts == call[2]
        m == SmallestIndex(ts)
        lo == EdgeStart(A, ts, m)
        hi == EdgeEnd(A, ts, m)
    IN  /\ \A i \in 0 .. 3 : ~isBranch3(br, ts[i + 1])
        /\ hi[AxisIndex(A)] = lo[AxisIndex(A)] + CellSize(ts[m + 1])
        /\ hi[AxisIndex(Q(A))] = lo[AxisIndex(Q(A))]
        /\ hi[AxisIndex(R(A))] = lo[AxisIndex(R(A))]
        /\ \A i \in 0 .. 3 :
              \A s \in 0 .. CellSize(ts[m + 1]) - 1 :
                  Covers(ts[i + 1],
                         QuadrantCube(A, [lo EXCEPT ![AxisIndex(A)] = @ + s], i))

\* C31 (amended): edge3<A> calls load<A> only on four cells none of which
\* is a branch; in every load<A> call the four cells lie in quadrant order
\* around the edge along A of the smallest of them, which is the cell whose
\* corners {Q|R, R, Q, 0}[i] and {Q|R, R, Q, 0}[i] | A end that edge.
C31_LoadCellsAroundEdge ==
    (fn.op = "walk" /\ fn.ret # << >>) =>
        /\ \A k \in 1 .. Len(fn.ret[1]) : AroundEdge(fn.arg[1], fn.ret[1][k])
        /\ \A A \in Axes, i \in Octants :
              LET ts == << << i >>, << i >>, << i >>, << i >> >>
              IN  Len(edge3(fn.arg[1], ts, A)) > 1 <=> isBranch3(fn.arg[1], << i >>)

\* A call where one leaf fills two quadrants: the edge lies within a face
\* of it and none of its corners is on the edge.
C31_Witness ==
    /\ fn.op = "walk" /\ fn.ret # << >>
    /\ \E k \in 1 .. Len(fn.ret[1]) :
          /\ AroundEdge(fn.arg[1], fn.ret[1][k])
          /\ ~SharesEdge(fn.arg[1], fn.ret[1][k])
          /\ \E i, j \in 1 .. 4 : i # j /\ fn.ret[1][k][2][i] = fn.ret[1][k][2][j]

(* ------------------------------------------------ C32: levels in the build *)
\* The cells that are allocated.
Live == { c \in Cells : tree[c].type # FREE }

\* Cell c is being subdivided or has been.
Subdivided(c) ==
    \/ isBranch(c)
    \/ \E w \in Workers : pc[w] = "push" /\ cur[w] = c
    \/ \E i \in ChildIdx : Len(c) < MaxLevel /\ child(c, i) \in Live

\* C32: every cell the build creates is one level below its parent and at
\* level 0 or above; only cells above level 0 are pruned by the volume tree,
\* evaluated on an interval or subdivided, and only cells at level 0 are
\* evaluated as leaves; so no cell is deeper than the root's level and
\* depth d holds at most (2^N)^d cells.
C32_LevelsBounded ==
    /\ \A c \in Live :
          /\ levelOf(c) >= 0
          /\ Len(c) <= level
          /\ c # root => /\ levelOf(c) = levelOf(parent(c)) - 1
                         /\ levelOf(parent(c)) > 0
    /\ \A c \in Cells :
          /\ Subdivided(c) => levelOf(c) > 0
          /\ hist.setBy[c] \cap {"vol", "interval"} # {} => levelOf(c) > 0
          /\ "leaf" \in hist.setBy[c] => levelOf(c) = 0
    /\ \A d \in 0 .. MaxLevel :
          Cardinality({ c \in Live : Len(c) = d }) <= NumChildren ^ d

\* A tree of full depth: the root and a cell below it were subdivided, a
\* cell at level 0 was evaluated as a leaf, and the deepest level is full.
C32_Witness ==
    /\ level = MaxLevel
    /\ "interval" \in hist.setBy[root]
    /\ \E c \in Live :
          /\ Len(c) = 1 /\ Subdivided(c)
          /\ \E i \in ChildIdx : "leaf" \in hist.setBy[child(c, i)]
    /\ Cardinality({ c \in Live : Len(c) = MaxLevel }) = NumChildren ^ MaxLevel

(* ------------------------------------------------ C33: the type of a cell *)
\* The types of an evaluated cell.
Decided == {EMPTY, FILLED, AMBIGUOUS}

\* The type of cell c is assigned a different value in this step, other
\* than by the release of the cell.
Retyped(c) ==
    /\ tree[c].type \in Decided
    /\ tree'[c].type # FREE
    /\ tree'[c].type # tree[c].type

\* This step collects the children of c, all EMPTY or all FILLED, releases
\* them and gives c their type.
Promoted(c) ==
    /\ tree[c].type = AMBIGUOUS
    /\ tree'[c].type \in {EMPTY, FILLED}
    /\ tree[c].pending = 1
    /\ \A i \in ChildIdx :
          /\ tree[child(c, i)].type = tree'[c].type
          /\ tree'[child(c, i)].type = FREE

\* Every evaluated cell left UNKNOWN through one of the three evaluations.
SetByOne ==
    \A c \in Cells :
        tree[c].type \in Decided =>
            \E by \in {"vol", "interval", "leaf"} : hist.setBy[c] = {by}

\* C33: the type of each cell is set exactly once: it leaves UNKNOWN through
\* exactly one of the volume-tree check, the interval evaluation and the leaf
\* evaluation, and is never assigned again, bottom-up collection included.
C33_TypeSetOnce ==
    /\ []SetByOne
    /\ [][\A c \in Cells : ~Retyped(c)]_vars

\* C33 (amended): the type of each cell leaves UNKNOWN through exactly one
\* of the volume-tree check, the interval evaluation and the leaf
\* evaluation; after that it is assigned again only by the collection of the
\* cell's children, which promotes an AMBIGUOUS parent to EMPTY or FILLED
\* when all its children have that type.
C33_TypeSetOnceThenPromoted ==
    /\ []SetByOne
    /\ [][\A c \in Cells : Retyped(c) => Promoted(c)]_vars

\* One cell was decided by the volume tree, and one that the interval
\* evaluation had found AMBIGUOUS was promoted by the collection of its
\* children.
C33_Witness ==
    /\ \E c \in Cells : tree[c].type \in Decided /\ hist.setBy[c] = {"vol"}
    /\ \E c \in Cells :
          /\ hist.setBy[c] = {"interval"}
          /\ hist.collects[c] > 0
          /\ tree[c].type \in {EMPTY, FILLED}

(* ------------------------------------------------ C34: the ticks of a build *)
\* C34: when a build that was not cancelled has returned its tree, the
\* ticks its workers reported (1 for each level-0 leaf, the size of the
\* whole would-be subtree for each cell pruned above level 0, 1 for each
\* cell whose children were collected) add up to the total that build gave
\* to nextPhase.
C34_TicksSumToTotal ==
    (mpc = "check" /\ rootOut # NULL) => progress.counter = progress.total

(* ------------------------------------------------ C35: the announced total *)
\* The build phase of the progress handler is the current one.
BuildPhase == mpc \in {"build_join", "check"}

\* The number of cells of the complete tree of l levels below the root.
FullTree(l) == (NumChildren ^ (l + 1) - 1) \div (NumChildren - 1)

\* C35: the total that build announces to the progress handler is the
\* number of cells the tree would have at maximal depth, (2^N)^level.
C35_TotalIsDeepestLevel ==
    BuildPhase => progress.total = NumChildren ^ level

\* C35 (amended): the total that build announces to the progress handler
\* is the number of cells of the tree subdivided everywhere down to level
\* 0, the cells of all depths counted: 1 + 2^N + ... + (2^N)^level.
C35_TotalIsFullTree ==
    BuildPhase => progress.total = FullTree(level)

\* A build of a region of the highest level has announced its total, which
\* is more than the cells of the deepest level.
C35_Witness ==
    /\ mpc = "build_join"
    /\ level = MaxLevel
    /\ progress.total = FullTree(MaxLevel)
    /\ progress.total > NumChildren ^ MaxLevel

(* ------------------------------------------------ C38: the two triangles *)
\* The vertices of a triangle, and its sides in the direction it goes
\* round them.
Verts(t) == { t[1], t[2], t[3] }
Directed(t) == { << t[1], t[2] >>, << t[2], t[3] >>, << t[3], t[1] >> }

\* The sides of the quad of the cells 0, 1, 3, 2 around the edge, in that
\* direction for D = 1 and in the other for D = 0.
Perimeter(vs, D) ==
    LET round == { << vs[1], vs[2] >>, << vs[2], vs[4] >>,
                   << vs[4], vs[3] >>, << vs[3], vs[1] >> }
    IN  IF D = 1 THEN round ELSE { << e[2], e[1] >> : e \in round }

\* The two candidate triangles of a quad of four different vertices use the
\* four vertices, have one diagonal of the quad in common and nothing else,
\* go along it in opposite directions, and go round the quad the same way.
SplitsQuad(vs, D, cands) ==
    LET t1 == cands[1]
        t2 == cands[2]
        diag == Verts(t1) \cap Verts(t2)
    IN  /\ Verts(t1) \cup Verts(t2) = { vs[k] : k \in 1 .. 4 }
        /\ diag \in { { vs[1], vs[4] }, { vs[2], vs[3] } }
        /\ \E x, y \in diag :
              /\ x # y
              /\ << x, y >> \in Directed(t1)
              /\ << y, x >> \in Directed(t2)
              /\ (Directed(t1) \cup Directed(t2)) \ { << x, y >>, << y, x >> }
                     = Perimeter(vs, D)

\* load has made the candidate triangles of a quad of four vertices.
HasQuad(w) ==
    /\ ld[w].cands # << >>
    /\ Cardinality({ ld[w].vs[k] : k \in 1 .. 4 }) = 4

\* C38: for every quad that DCMesher::load handles, whichever diagonal is
\* chosen, the two candidate triangles use all four vertices of the quad,
\* share exactly the chosen diagonal and go along it in opposite directions:
\* they have the same winding, for either polarity D.
C38_TrianglesSplitQuad ==
    \A w \in Meshers :
        HasQuad(w) => SplitsQuad(ld[w].vs, ld[w].D, ld[w].cands)

\* A quad of polarity 0, where the vertices of cells 1 and 2 change
\* places, split along the diagonal of cells 0 and 3.
C38_Witness ==
    \E w \in Meshers :
        /\ HasQuad(w)
        /\ ld[w].D = 0
        /\ ld[w].wound # ld[w].vs
        /\ Verts(ld[w].cands[1]) \cap Verts(ld[w].cands[2])
               = { ld[w].vs[1], ld[w].vs[4] }
        /\ SplitsQuad(ld[w].vs, ld[w].D, ld[w].cands)

(* ==================================================== Intersection<3> *)
(* The accumulator of one QEF, followed on its own through any calls of  *)
(* push, reset and get_rank (QefSpec).  The gradients pushed lie along   *)
(* the axes, so that the normalised gradient is a signed unit vector,    *)
(* AtA stays diagonal and its eigenvalues are its diagonal entries; the  *)
(* value pushed is a whole multiple of the norm of the gradient.  This   *)
(* is the build without LIBFIVE_UNNORMALIZED_DERIVS.                     *)

\* The number of calls followed on one Intersection.
MaxCalls == 4

\* The coordinates of Eigen::Matrix<double, N, 1>, N = 3.
Coords == 1 .. 3

Zeros == [i \in Coords |-> 0]

\* A gradient along an axis, of norm mant * 10^exp, or one with a NaN or
\* an infinite component.
Grad(kind, axis, sign, mant, exp) ==
    [kind |-> kind, axis |-> axis, sign |-> sign, mant |-> mant, exp |-> exp]

NoGrad == Grad("none", 1, 1, 0, 0)

\* Unit and longer gradients along each axis, the zero gradient, gradients
\* of norm 1e-13 and 1e-12, and gradients that are not finite.
Grads ==
    { Grad("num", a, 1, 1, 0) : a \in Coords } \cup
    { Grad("num", 1, -1, 2, 0),
      Grad("num", 1, 1, 0, 0),
      Grad("num", 1, 1, 1, -13),
      Grad("num", 1, 1, 1, -12),
      Grad("nan", 1, 1, 0, 0),
      Grad("inf", 1, 1, 0, 0) }

Positions == { << 0, 0, 0 >>, << 1, 2, 0 >> }

\* value / norm for the values pushed.
Values == { 0, 1 }

\* norm <= 1e-12; false when the norm is NaN or infinite.
NormAtMost(g) ==
    /\ g.kind = "num"
    /\ g.mant = 0 \/ g.exp < -12 \/ (g.exp = -12 /\ g.mant <= 1)

\* deriv.array().isFinite().all() after deriv /= norm: 0 / 0, NaN / NaN
\* and inf / inf are NaN.
IsFinite(g) == g.kind = "num" /\ g.mant # 0

\* Line 48: the test that makes push return early.
Skips(g) == NormAtMost(g) \/ ~IsFinite(g)

\* Lines 94-99 and the constructor: the members with rank = -1, then reset().
NewIntersection ==
    [ AtA |-> Zeros, AtB |-> Zeros, BtB |-> 0,
      mass_point |-> [i \in 1 .. 4 |-> 0], rank |-> -1 ]

\* Lines 26-31.
reset(o) ==
    [o EXCEPT !.AtA = Zeros, !.AtB = Zeros, !.BtB = 0,
              !.mass_point = [i \in 1 .. 4 |-> 0]]

\* Lines 33-60, v being value / norm.
push(o, pos, g, v) ==
    LET mp == [i \in 1 .. 4 |-> IF i <= 3 THEN pos[i] ELSE 1]
        summed == [o EXCEPT !.mass_point = [i \in 1 .. 4 |-> @[i] + mp[i]]]
        b == g.sign * pos[g.axis] - v
    IN  IF Skips(g) THEN summed
        ELSE [summed EXCEPT !.AtA[g.axis] = @ + 1,
                            !.AtB[g.axis] = @ + g.sign * b,
                            !.BtB = @ + b * b,
                            !.rank = -1]

\* EIGENVALUE_CUTOFF in tenths: 0.1.
CutoffTenths == 1

Abs(x) == IF x < 0 THEN -x ELSE x

\* An eigenvalue that the cutoff retains.
Retained(ev) == 10 * Abs(ev) >= CutoffTenths

\* Line 86, the test that adds to rank.
Counted(ev) == 10 * Abs(ev) < CutoffTenths

\* Lines 73-87: the rank as get_rank computes it from AtA.
ComputeRank(AtA) == Cardinality({ j \in Coords : Counted(AtA[j]) })

\* Lines 69-90: the object after the call and the value returned.
get_rank(o) ==
    LET r == IF o.rank = -1 THEN ComputeRank(o.AtA) ELSE o.rank
    IN  [obj |-> [o EXCEPT !.rank = r], ret |-> r]

Call(op, g, fresh) == [op |-> op, g |-> g, fresh |-> fresh]

QefInit ==
    /\ RenderIdle
    /\ MeshIdle
    /\ fn = [op |-> "qef",
             arg |-> [obj |-> NewIntersection, calls |-> 0,
                      last |-> Call("new", NoGrad, FALSE)],
             ret |-> << >>]

CallPush ==
    /\ fn.op = "qef"
    /\ fn.arg.calls < MaxCalls
    /\ \E pos \in Positions, g \in Grads, v \in Values :
          fn' = [fn EXCEPT !.arg = [obj |-> push(fn.arg.obj, pos, g, v),
                                    calls |-> fn.arg.calls + 1,
                                    last |-> Call("push", g, FALSE)],
                           !.ret = << >>]
    /\ UNCHANGED << renderVars, meshVars >>

CallReset ==
    /\ fn.op = "qef"
    /\ fn.arg.calls < MaxCalls
    /\ fn' = [fn EXCEPT !.arg = [obj |-> reset(fn.arg.obj),
                                 calls |-> fn.arg.calls + 1,
                                 last |-> Call("reset", NoGrad, FALSE)],
                        !.ret = << >>]
    /\ UNCHANGED << renderVars, meshVars >>

CallGetRank ==
    /\ fn.op = "qef"
    /\ fn.arg.calls < MaxCalls
    /\ LET out == get_rank(fn.arg.obj)
       IN  fn' = [fn EXCEPT !.arg = [obj |-> out.obj,
                                     calls |-> fn.arg.calls + 1,
                                     last |-> Call("get_rank", NoGrad,
                                                   fn.arg.obj.rank = -1)],
                            !.ret = << out.ret >>]
    /\ UNCHANGED << renderVars, meshVars >>

QefNext == CallPush \/ CallReset \/ CallGetRank

QefSpec == QefInit /\ [][QefNext]_vars

(* ------------------------------------------------ C36: the rank returned *)
\* The number of eigenvalues of AtA that the cutoff retains.
PseudoRank(AtA) == Cardinality({ j \in Coords : Retained(AtA[j]) })

\* C36: a get_rank that computes the rank returns the number of
\* eigenvalues of AtA whose magnitude is not below EIGENVALUE_CUTOFF:
\* 0 with nothing pushed, 1 on a flat feature, 2 on an edge, 3 on a corner.
C36_RankCountsRetained ==
    (fn.op = "qef" /\ fn.arg.last.op = "get_rank" /\ fn.arg.last.fresh) =>
        fn.ret = << PseudoRank(fn.arg.obj.AtA) >>

(* ------------------------------------------------ C37: a dropped sample *)
\* This step is a push whose gradient is dropped.
DroppedPush ==
    /\ fn.op = "qef"
    /\ fn'.arg.calls = fn.arg.calls + 1
    /\ fn'.arg.last.op = "push"
    /\ Skips(fn'.arg.last.g)

\* C37: a push whose gradient has a norm below 1e-12 or is not finite is
\* dropped: it leaves AtA, AtB, BtB and mass_point as they were.
C37_DroppedPushChangesNothing ==
    [][DroppedPush =>
          /\ fn'.arg.obj.AtA = fn.arg.obj.AtA
          /\ fn'.arg.obj.AtB = fn.arg.obj.AtB
          /\ fn'.arg.obj.BtB = fn.arg.obj.BtB
          /\ fn'.arg.obj.mass_point = fn.arg.obj.mass_point]_vars

(* ------------------------------------------------ C39: the cached rank *)
\* C39: after any calls of push, reset and get_rank the cached rank is
\* never stale: while it is set it is the rank that get_rank computes from
\* the current AtA, and that is what get_rank returns.
C39_CachedRankIsCurrent ==
    fn.op = "qef" =>
        /\ fn.arg.obj.rank # -1 =>
              fn.arg.obj.rank = ComputeRank(fn.arg.obj.AtA)
        /\ fn.arg.last.op = "get_rank" =>
              fn.ret = << ComputeRank(fn.arg.obj.AtA) >>

====
